---- MODULE Spec2Model ----
(***************************************************************************)
(* rooster-man/sound: the pitch model (Note, Key), the waveform            *)
(* generators (Wave, Square, SquareWave), the Melody (durations, expansion *)
(* of the note elements, builder methods, play), parse_note_notation, the  *)
(* command line of play (create_melody_config) and the event loop of jam.  *)
(*                                                                         *)
(* Numbers.  i32 `/` and `%` truncate toward zero (TruncDiv, TruncRem);    *)
(* `as u8` keeps the low eight bits (AsU8).  The generators compute in     *)
(* f32.  Frequencies and sample rates are drawn from powers of two and     *)
(* durations from multiples of 125 ms, where every f32 operation of the    *)
(* generators is exact, so the rational arithmetic below is the f32        *)
(* arithmetic of the code:                                                 *)
(*   - a phase p is held as the integer p * sample_rate;                   *)
(*   - a sample s is held as the integer s * 1000 (sine, the one shape     *)
(*     with irrational values, is tabulated to three decimals).            *)
(***************************************************************************)
EXTENDS Integers, Sequences, FiniteSets, TLC

VARIABLES
    keyImpl,    \* which Key implementation is linked: "music" or "legacy"
    key,        \* the Key under test: [root, octave]
    interval,   \* the interval last passed to note_at_interval
    result,     \* (Note, u8) returned by note_at_interval(key, interval)
    back,       \* (Note, u8) returned by note_at_interval(result as key, -interval)
    pcK,        \* position of the pitch scenario
    semIn,      \* argument last passed to Note::from_semitone
    semOut,     \* its return value
    noteIn,     \* pitch class whose to_semitone() produced semIn, or "none"
    gen,        \* the generator object (Wave, Square or SquareWave)
    cfg,        \* the arguments the generator was constructed with
    out,        \* what the last call of next() returned
    emitted,    \* number of Some(sample) results returned so far
    calls,      \* number of next() calls made so far
    melImpl,    \* which Melody is linked: "music" or "legacy"
    mel,        \* the Melody object
    expI,       \* the index i of the expansion loop
    pcM,        \* position of the melody scenario
    lastOp,     \* the builder call made last, with its arguments
    sink,       \* the generators handed to the sink so far, in order
    plays,      \* number of Melody::play calls made so far
    durIn,      \* arguments last passed to calculate_durations
    durOut,     \* its return value
    pst,        \* parse_note_notation: elements and current_octave_offset
    tokIdx,     \* number of tokens the for loop has entered
    scanned,    \* number of characters scanned so far
    lastCh,     \* the character scanned last in the current token
    tokShift,   \* '^' minus 'v' scanned so far in the current token
    callShift,  \* '^' minus 'v' scanned so far in the whole call
    pResult,    \* what parse_note_notation returned
    pcP,        \* position of the parser
    slept,      \* milliseconds play has slept after its play calls
    cliArgs,    \* the command-line arguments given to play
    cliResult,  \* what create_melody_config returned
    jamOctave,  \* key.octave of jam, a u8
    active_keys,\* jam's map from (key code, modifiers) to the sink it holds
    connected,  \* the Sink::connect_new calls of jam so far
    stopped,    \* the sink.stop() calls of jam so far
    arrows,     \* the arrow presses so far
    pcJ,        \* position of jam: loop, exited, panicked
    jamEvent    \* the key event handled last

pitchVars == <<keyImpl, key, interval, result, back, pcK, semIn, semOut, noteIn>>
genVars == <<gen, cfg, out, emitted, calls>>
melodyVars == <<melImpl, mel, expI, pcM, lastOp, sink, plays, slept>>
durVars == <<durIn, durOut>>
parseVars == <<pst, tokIdx, scanned, lastCh, tokShift, callShift, pResult, pcP>>
cliVars == <<cliArgs, cliResult>>
jamVars == <<jamOctave, active_keys, connected, stopped, arrows, pcJ, jamEvent>>
vars == <<pitchVars, genVars, melodyVars, durVars, parseVars, cliVars, jamVars>>

\* what the actions of one scenario leave alone
exceptPitch == <<genVars, melodyVars, durVars, parseVars, cliVars, jamVars>>
exceptGen == <<pitchVars, melodyVars, durVars, parseVars, cliVars, jamVars>>
exceptMelody == <<pitchVars, genVars, durVars, parseVars, cliVars, jamVars>>
exceptDur == <<pitchVars, genVars, melodyVars, parseVars, cliVars, jamVars>>
exceptParse == <<pitchVars, genVars, melodyVars, durVars, cliVars, jamVars>>
exceptCli == <<pitchVars, genVars, durVars, parseVars, jamVars>>
exceptJam == <<pitchVars, genVars, melodyVars, durVars, parseVars, cliVars>>

----------------------------------------------------------------------------
(* Bounds *)

MaxOctave == 8
MaxInterval == 24
MaxSemitone == 30

----------------------------------------------------------------------------
(* Rust integer arithmetic *)

Max(a, b) == IF a >= b THEN a ELSE b

Min(a, b) == IF a <= b THEN a ELSE b

Abs(a) == IF a >= 0 THEN a ELSE -a

\* i32 `a / b` for b > 0: the quotient truncated toward zero
TruncDiv(a, b) == IF a >= 0 THEN a \div b ELSE -((-a) \div b)

\* i32 `a % b` for b > 0: the remainder has the sign of a
TruncRem(a, b) == a - b * TruncDiv(a, b)

\* `x as u8` of an i32: the low eight bits
AsU8(x) == x % 256

----------------------------------------------------------------------------
(* Note *)

PitchClasses == <<"C", "Cs", "D", "Ds", "E", "F", "Fs", "G", "Gs", "A", "As", "B">>

Pitched == {PitchClasses[i] : i \in 1..12}

Notes == Pitched \cup {"Rest"}

ToSemitone(note) ==
    CASE note = "C" -> 0
      [] note = "Cs" -> 1
      [] note = "D" -> 2
      [] note = "Ds" -> 3
      [] note = "E" -> 4
      [] note = "F" -> 5
      [] note = "Fs" -> 6
      [] note = "G" -> 7
      [] note = "Gs" -> 8
      [] note = "A" -> 9
      [] note = "As" -> 10
      [] note = "B" -> 11
      [] note = "Rest" -> -1

FromSemitone(semitone) ==
    LET r == TruncRem(semitone, 12)
    IN  IF r \in 0..11 THEN PitchClasses[r + 1] ELSE "C"

----------------------------------------------------------------------------
(* Key *)

NoKey == [root |-> "Rest", octave |-> 0]

NoResult == [note |-> "Rest", octave |-> 0]

KeyNew(root, octave) == [root |-> root, octave |-> octave]

\* mutant: truncating division and remainder on a negative target
NoteAtIntervalTruncating(k, i) ==
    LET root_semitone == ToSemitone(k.root)
        target_semitone == root_semitone + i
        octave_change == TruncDiv(target_semitone, 12)
        final_octave == AsU8(Max(k.octave + octave_change, 0))
        note_semitone == Abs(TruncRem(target_semitone, 12))
    IN  [note |-> FromSemitone(note_semitone), octave |-> final_octave]

\* mutant: the octave rounds up from (target - 11) / 12 on negative targets
NoteAtIntervalNoBias(k, i) ==
    LET root_semitone == ToSemitone(k.root)
        target_semitone == root_semitone + i
        octave_change == TruncDiv(target_semitone, 12)
        final_octave == AsU8(Max(k.octave + octave_change, 0))
        note_semitone == IF target_semitone >= 0
                         THEN TruncRem(target_semitone, 12)
                         ELSE TruncRem(TruncRem(target_semitone, 12) + 12, 12)
    IN  [note |-> FromSemitone(note_semitone), octave |-> final_octave]

NoteAtInterval(k, i) ==
    LET root_semitone == ToSemitone(k.root)
        target_semitone == root_semitone + i
        octave_change == IF target_semitone >= 0
                         THEN TruncDiv(target_semitone, 12)
                         ELSE TruncDiv(target_semitone - 11, 12)
        final_octave == AsU8(Max(k.octave + octave_change, 0))
        note_semitone == IF target_semitone >= 0
                         THEN TruncRem(target_semitone, 12)
                         ELSE TruncRem(TruncRem(target_semitone, 12) + 12, 12)
        final_note == FromSemitone(note_semitone)
    IN  [note |-> final_note, octave |-> final_octave]

NoteAtIntervalLegacy(k, i) ==
    IF i < 0
    THEN [note |-> "Rest", octave |-> 0]
    ELSE LET root_semitone == ToSemitone(k.root)
             target_semitone == root_semitone + i
             octave_change == TruncDiv(target_semitone, 12)
             final_octave == AsU8(k.octave + octave_change)
             final_note == FromSemitone(target_semitone)
         IN  [note |-> final_note, octave |-> final_octave]

\* Key::note_at_interval of the implementation that is linked
NoteAtIntervalOf(impl, k, i) ==
    IF impl = "music" THEN NoteAtInterval(k, i) ELSE NoteAtIntervalLegacy(k, i)

----------------------------------------------------------------------------
(* The pitch scenario: build a key, resolve an interval, resolve the       *)
(* opposite interval from the result; call from_semitone.                  *)

InitPitch ==
    /\ keyImpl = "music"
    /\ key = NoKey
    /\ interval = 0
    /\ result = NoResult
    /\ back = NoResult
    /\ pcK = "start"
    /\ semIn = 0
    /\ semOut = "C"
    /\ noteIn = "none"

NewKey ==
    /\ pcK = "start"
    /\ \E impl \in {"music", "legacy"}, root \in Notes, octave \in 0..MaxOctave :
          /\ keyImpl' = impl
          /\ key' = KeyNew(root, octave)
    /\ pcK' = "key"
    /\ UNCHANGED <<interval, result, back, semIn, semOut, noteIn, exceptPitch>>

ResolveInterval ==
    /\ pcK = "key"
    /\ \E i \in -MaxInterval..MaxInterval :
          /\ interval' = i
          /\ result' = NoteAtIntervalOf(keyImpl, key, i)
    /\ pcK' = "resolved"
    /\ UNCHANGED <<keyImpl, key, back, semIn, semOut, noteIn, exceptPitch>>

ResolveBack ==
    /\ pcK = "resolved"
    /\ back' = NoteAtIntervalOf(keyImpl, KeyNew(result.note, result.octave), -interval)
    /\ pcK' = "back"
    /\ UNCHANGED <<keyImpl, key, interval, result, semIn, semOut, noteIn, exceptPitch>>

CallFromSemitone ==
    /\ pcK = "start"
    /\ \E n \in -MaxSemitone..MaxSemitone :
          /\ semIn' = n
          /\ semOut' = FromSemitone(n)
    /\ noteIn' = "none"
    /\ pcK' = "semitone"
    /\ UNCHANGED <<keyImpl, key, interval, result, back, exceptPitch>>

CallToFromSemitone ==
    /\ pcK = "start"
    /\ \E p \in Pitched :
          /\ noteIn' = p
          /\ semIn' = ToSemitone(p)
          /\ semOut' = FromSemitone(ToSemitone(p))
    /\ pcK' = "semitone"
    /\ UNCHANGED <<keyImpl, key, interval, result, back, exceptPitch>>

----------------------------------------------------------------------------
(* Generator inputs *)

MaxFreqExp == 4
MaxDurSteps == 4
MaxCalls == 7

RECURSIVE Pow2(_)
Pow2(e) == IF e = 0 THEN 1 ELSE 2 * Pow2(e - 1)

\* sample rates in Hz (the program plays at 44100 and 41000)
SampleRates == {4, 8}

\* frequencies in Hz; 0 is the frequency of a Rest
Frequencies == {0} \cup {Pow2(e) : e \in 0..MaxFreqExp}

\* durations in milliseconds, as Duration::from_millis builds them
Durations == {125 * k : k \in 0..MaxDurSteps}

WaveTypes == {"Sine", "Square", "Triangle", "Pulse", "Sawtooth"}

None == [some |-> FALSE, val |-> 0]

Some(v) == [some |-> TRUE, val |-> v]

----------------------------------------------------------------------------
(* Note::frequency and MusicNote *)

BaseFreq(note) ==
    CASE note = "C" -> 261
      [] note = "Cs" -> 277
      [] note = "D" -> 294
      [] note = "Ds" -> 311
      [] note = "E" -> 330
      [] note = "F" -> 349
      [] note = "Fs" -> 370
      [] note = "G" -> 392
      [] note = "Gs" -> 415
      [] note = "A" -> 440
      [] note = "As" -> 466
      [] note = "B" -> 494
      [] note = "Rest" -> 0

\* Note::frequency(octave) in sixteenths of a hertz:
\* base_freq * 2^(octave - 4) = base_freq * 2^octave / 16
Frequency16(note, octave) ==
    IF BaseFreq(note) = 0 THEN 0 ELSE BaseFreq(note) * Pow2(octave)

MusicNoteNew(note, octave, duration) ==
    [note |-> note, octave |-> octave, duration |-> duration]

----------------------------------------------------------------------------
(* Generator construction *)

NoGen ==
    [kind |-> "none", wave_type |-> "Square", frequency |-> 0, sample_rate |-> 1,
     phase |-> 0, phase_step |-> 0, samples_played |-> 0, limit |-> None,
     duration |-> 0]

\* period = sample_rate / frequency; phase_step = 1 / period, held as
\* phase_step * sample_rate.  frequency = 0 gives period = +inf and step 0.
PhaseStep(frequency, sample_rate) ==
    IF frequency = 0 THEN 0 ELSE (sample_rate * frequency) \div sample_rate

\* mutant: the sample budget rounded to nearest instead of cut
TotalSamplesRounded(duration, sample_rate) ==
    (2 * duration * sample_rate + 1000) \div 2000

\* (duration.as_secs_f32() * sample_rate as f32) as usize
TotalSamples(duration, sample_rate) == (duration * sample_rate) \div 1000

WaveFinite(wave_type, frequency, sample_rate, duration) ==
    [kind |-> "Wave", wave_type |-> wave_type, frequency |-> 0,
     sample_rate |-> sample_rate, phase |-> 0,
     phase_step |-> PhaseStep(frequency, sample_rate), samples_played |-> 0,
     limit |-> Some(TotalSamples(duration, sample_rate)), duration |-> 0]

WaveInfinite(wave_type, frequency, sample_rate) ==
    [kind |-> "Wave", wave_type |-> wave_type, frequency |-> 0,
     sample_rate |-> sample_rate, phase |-> 0,
     phase_step |-> PhaseStep(frequency, sample_rate), samples_played |-> 0,
     limit |-> None, duration |-> 0]

SquareFinite(frequency, sample_rate, duration) ==
    [kind |-> "Square", wave_type |-> "Square", frequency |-> frequency,
     sample_rate |-> sample_rate, phase |-> 0,
     phase_step |-> PhaseStep(frequency, sample_rate), samples_played |-> 0,
     limit |-> Some(TotalSamples(duration, sample_rate)), duration |-> 0]

SquareInfinite(frequency, sample_rate) ==
    [kind |-> "Square", wave_type |-> "Square", frequency |-> frequency,
     sample_rate |-> sample_rate, phase |-> 0,
     phase_step |-> PhaseStep(frequency, sample_rate), samples_played |-> 0,
     limit |-> None, duration |-> 0]

\* SquareWave keeps total_samples in the field modelled as limit
SquareWaveNew(frequency, sample_rate, duration) ==
    [kind |-> "SquareWave", wave_type |-> "Square", frequency |-> frequency,
     sample_rate |-> sample_rate, phase |-> 0, phase_step |-> 0,
     samples_played |-> 0,
     limit |-> Some(TotalSamples(duration, sample_rate)), duration |-> duration]

----------------------------------------------------------------------------
(* Wave shapes: the sample at the current phase, times 1000 *)

\* sin(TAU * phase) at the eighths of a turn, to three decimals
SineTable == <<0, 707, 1000, 707, 0, -707, -1000, -707>>

WaveSine(g) == SineTable[(((8 * g.phase) \div g.sample_rate) % 8) + 1]

\* floor(phase + 0.5)
FloorHalf(g) == (2 * g.phase + g.sample_rate) \div (2 * g.sample_rate)

\* mutant: the final "- 1" is lost
WaveTriangleNoOffset(g) ==
    (4000 * Abs(g.phase - FloorHalf(g) * g.sample_rate)) \div g.sample_rate

WaveTriangle(g) ==
    (4000 * Abs(g.phase - FloorHalf(g) * g.sample_rate)) \div g.sample_rate - 1000

WaveSquare(g) ==
    IF 2 * TruncRem(g.phase, g.sample_rate) < g.sample_rate THEN 1000 ELSE -1000

\* mutant: the pulse given the duty cycle of the square
WavePulseHalfDuty(g) ==
    IF 2 * TruncRem(g.phase, g.sample_rate) < g.sample_rate THEN 1000 ELSE -1000

WavePulse(g) ==
    IF 4 * TruncRem(g.phase, g.sample_rate) < g.sample_rate THEN 1000 ELSE -1000

WaveSawtooth(g) ==
    (2000 * (g.phase - FloorHalf(g) * g.sample_rate)) \div g.sample_rate

----------------------------------------------------------------------------
(* Iterator::next: the item returned and the generator afterwards *)

\* (phase + phase_step).rem_euclid(1.0)
RemEuclidOne(g) == (g.phase + g.phase_step) % g.sample_rate

WaveNext(g) ==
    IF g.limit.some /\ g.samples_played >= g.limit.val
    THEN [item |-> None, gen |-> g]
    ELSE LET sample == CASE g.wave_type = "Sine" -> WaveSine(g)
                         [] g.wave_type = "Triangle" -> WaveTriangle(g)
                         [] g.wave_type = "Square" -> WaveSquare(g)
                         [] g.wave_type = "Pulse" -> WavePulse(g)
                         [] g.wave_type = "Sawtooth" -> WaveSawtooth(g)
         IN  [item |-> Some(sample),
              gen |-> [g EXCEPT !.phase = RemEuclidOne(g),
                                !.samples_played = @ + 1]]

SquareNext(g) ==
    IF g.limit.some /\ g.samples_played >= g.limit.val
    THEN [item |-> None, gen |-> g]
    ELSE LET sample == IF 2 * TruncRem(g.phase, g.sample_rate) < g.sample_rate
                       THEN 1000 ELSE -1000
         IN  [item |-> Some(sample),
              gen |-> [g EXCEPT !.phase = RemEuclidOne(g),
                                !.samples_played = @ + 1]]

SquareWaveNext(g) ==
    IF g.samples_played >= g.limit.val
    THEN [item |-> None, gen |-> g]
    ELSE LET sample == IF g.frequency = 0 THEN 0
                       ELSE IF 2 * g.phase < g.sample_rate THEN 100 ELSE -100
             advanced == g.phase + g.frequency
             wrapped == IF advanced >= g.sample_rate
                        THEN advanced - g.sample_rate ELSE advanced
         IN  [item |-> Some(sample),
              gen |-> [g EXCEPT !.phase = wrapped, !.samples_played = @ + 1]]

\* mutant: the budget test is off by one (> for >=)
GenNextOffByOne(g) ==
    IF g.limit.some /\ g.samples_played > g.limit.val
    THEN [item |-> None, gen |-> g]
    ELSE [item |-> Some(1000),
          gen |-> [g EXCEPT !.phase = RemEuclidOne(g), !.samples_played = @ + 1]]

\* mutant: an exhausted generator still advances its phase
GenNextDrifting(g) ==
    LET r == CASE g.kind = "Wave" -> WaveNext(g)
               [] g.kind = "Square" -> SquareNext(g)
               [] g.kind = "SquareWave" -> SquareWaveNext(g)
    IN  IF r.item.some THEN r
        ELSE [item |-> None, gen |-> [g EXCEPT !.phase = RemEuclidOne(g)]]

GenNext(g) ==
    CASE g.kind = "Wave" -> WaveNext(g)
      [] g.kind = "Square" -> SquareNext(g)
      [] g.kind = "SquareWave" -> SquareWaveNext(g)

----------------------------------------------------------------------------
(* impl Source: stream metadata *)

\* limit.map(|lim| lim - samples_played) on usize; -1 stands for the
\* subtraction overflowing
CurrentSpanLen(g) ==
    IF g.limit.some
    THEN IF g.limit.val >= g.samples_played
         THEN Some(g.limit.val - g.samples_played)
         ELSE Some(-1)
    ELSE None

Channels(g) == 1

SampleRate(g) == g.sample_rate

\* in milliseconds
TotalDuration(g) ==
    IF g.kind = "SquareWave" THEN Some(g.duration)
    ELSE IF g.limit.some THEN Some((g.limit.val * 1000) \div g.sample_rate)
    ELSE None

----------------------------------------------------------------------------
(* The generator scenario: construct one generator, then pull samples *)

\* the record of a construction, kept for the properties
Built(ctor, finite, frequency, sample_rate, duration) ==
    [ctor |-> ctor, finite |-> finite, frequency |-> frequency,
     sample_rate |-> sample_rate, duration |-> duration]

InitGen ==
    /\ gen = NoGen
    /\ cfg = Built("none", FALSE, 0, 1, 0)
    /\ out = None
    /\ emitted = 0
    /\ calls = 0

NewWaveFinite ==
    /\ gen.kind = "none"
    /\ \E w \in WaveTypes, f \in Frequencies, sr \in SampleRates, d \in Durations :
          /\ gen' = WaveFinite(w, f, sr, d)
          /\ cfg' = Built("Wave::finite", TRUE, f, sr, d)
    /\ UNCHANGED <<out, emitted, calls, exceptGen>>

NewWaveInfinite ==
    /\ gen.kind = "none"
    /\ \E w \in WaveTypes, f \in Frequencies, sr \in SampleRates :
          /\ gen' = WaveInfinite(w, f, sr)
          /\ cfg' = Built("Wave::infinite", FALSE, f, sr, 0)
    /\ UNCHANGED <<out, emitted, calls, exceptGen>>

NewSquareFinite ==
    /\ gen.kind = "none"
    /\ \E f \in Frequencies, sr \in SampleRates, d \in Durations :
          /\ gen' = SquareFinite(f, sr, d)
          /\ cfg' = Built("Square::finite", TRUE, f, sr, d)
    /\ UNCHANGED <<out, emitted, calls, exceptGen>>

NewSquareInfinite ==
    /\ gen.kind = "none"
    /\ \E f \in Frequencies, sr \in SampleRates :
          /\ gen' = SquareInfinite(f, sr)
          /\ cfg' = Built("Square::infinite", FALSE, f, sr, 0)
    /\ UNCHANGED <<out, emitted, calls, exceptGen>>

NewSquareWave ==
    /\ gen.kind = "none"
    /\ \E f \in Frequencies, sr \in SampleRates, d \in Durations :
          /\ gen' = SquareWaveNew(f, sr, d)
          /\ cfg' = Built("SquareWave::new", TRUE, f, sr, d)
    /\ UNCHANGED <<out, emitted, calls, exceptGen>>

\* Square::from_note, as Melody::play calls it for each note.  The notes are
\* those whose frequency lies in Frequencies.
SquareFromNote ==
    /\ gen.kind = "none"
    /\ \E n \in Notes, o \in 0..MaxOctave, d \in Durations, sr \in SampleRates :
          LET note == MusicNoteNew(n, o, d)
              f16 == Frequency16(note.note, note.octave)
          IN  /\ f16 % 16 = 0
              /\ (f16 \div 16) \in Frequencies
              /\ gen' = SquareFinite(f16 \div 16, sr, note.duration)
              /\ cfg' = Built("Square::from_note", TRUE, f16 \div 16, sr, note.duration)
    /\ UNCHANGED <<out, emitted, calls, exceptGen>>

CallNext ==
    /\ gen.kind # "none"
    /\ calls < MaxCalls
    /\ LET r == GenNext(gen)
       IN  /\ gen' = r.gen
           /\ out' = r.item
           /\ emitted' = IF r.item.some THEN emitted + 1 ELSE emitted
    /\ calls' = calls + 1
    /\ UNCHANGED <<cfg, exceptGen>>

----------------------------------------------------------------------------
(* Melody: durations in milliseconds *)

MaxBpm == 500

\* the --duration names; "triplet" is a name the match does not know
DurationNames ==
    {"whole", "half", "quarter", "eighth", "sixteenth", "1", "2", "4", "8",
     "16", "Quarter", "WHOLE", "triplet"}

\* str::to_lowercase on the names above and on the scale names of the CLI
ToLowercase(s) ==
    CASE s = "Quarter" -> "quarter"
      [] s = "WHOLE" -> "whole"
      [] s = "Penta" -> "penta"
      [] OTHER -> s

\* mutant: the sustain increment is a quarter of the base unit
CalculateDurationsOfBase(bpm, base_duration) ==
    LET quarter_note_ms == 60000 \div bpm
        name == ToLowercase(base_duration)
        base_duration_ms ==
            CASE name \in {"whole", "1"} -> quarter_note_ms * 4
              [] name \in {"half", "2"} -> quarter_note_ms * 2
              [] name \in {"quarter", "4"} -> quarter_note_ms
              [] name \in {"eighth", "8"} -> quarter_note_ms \div 2
              [] OTHER -> quarter_note_ms \div 4
    IN  [base |-> base_duration_ms, sixteenth |-> base_duration_ms \div 4]

\* u32 arithmetic: `/` cuts the quotient
CalculateDurations(bpm, base_duration) ==
    LET quarter_note_ms == 60000 \div bpm
        sixteenth_note_ms == quarter_note_ms \div 4
        name == ToLowercase(base_duration)
        base_duration_ms ==
            CASE name \in {"whole", "1"} -> quarter_note_ms * 4
              [] name \in {"half", "2"} -> quarter_note_ms * 2
              [] name \in {"quarter", "4"} -> quarter_note_ms
              [] name \in {"eighth", "8"} -> quarter_note_ms \div 2
              [] name \in {"sixteenth", "16"} -> quarter_note_ms \div 4
              [] OTHER -> quarter_note_ms \div 4
    IN  [base |-> base_duration_ms, sixteenth |-> sixteenth_note_ms]

\* main.rs: (quarter, sixteenth)
CalculateDurationsLegacy(bpm) ==
    LET quarter_note_ms == 60000 \div bpm
        sixteenth_note_ms == quarter_note_ms \div 4
    IN  [quarter |-> quarter_note_ms, sixteenth |-> sixteenth_note_ms]

InitDur ==
    /\ durIn = [bpm |-> 0, base_duration |-> "none"]
    /\ durOut = [base |-> 0, sixteenth |-> 0]

\* one call per run
CallCalculateDurations ==
    /\ durIn.bpm = 0
    /\ \E bpm \in 1..MaxBpm, d \in DurationNames :
          /\ durIn' = [bpm |-> bpm, base_duration |-> d]
          /\ durOut' = CalculateDurations(bpm, d)
    /\ UNCHANGED exceptDur

----------------------------------------------------------------------------
(* Melody: configuration *)

MaxElems == 3
MaxNotes == 3
MaxPlays == 2

PlaySampleRate == 44100

MAJOR_SCALE == <<0, 2, 4, 5, 7, 9, 11, 12>>

PENTATONIC_MAJOR == <<0, 2, 4, 7, 9, 12>>

Scales == {MAJOR_SCALE, PENTATONIC_MAJOR}

NoteEl(position, octave_offset) ==
    [kind |-> "Note", position |-> position, octave_offset |-> octave_offset]

RestEl == [kind |-> "Rest", position |-> 0, octave_offset |-> 0]

SustainEl == [kind |-> "Sustain", position |-> 0, octave_offset |-> 0]

\* position 7 lies in the major scale and outside the pentatonic one;
\* position 0 lies outside every scale
ElementChoices ==
    {NoteEl(1, 0), NoteEl(1, -1), NoteEl(7, 1), NoteEl(0, 0), RestEl, SustainEl}

ElementLists == UNION {[1..n -> ElementChoices] : n \in 0..MaxElems}

\* tempos whose units are multiples of 125 ms
Bpms == {60, 120}

Configs ==
    [scale_intervals : Scales, note_elements : ElementLists,
     key : {KeyNew("C", 4)}, bpm : Bpms, should_loop : BOOLEAN,
     base_duration : {"quarter", "sixteenth"}, sample_rate : {PlaySampleRate}]

DefaultConfig ==
    [scale_intervals |-> MAJOR_SCALE,
     note_elements |-> [n \in 1..8 |-> NoteEl(n, 0)],
     key |-> KeyNew("C", 4), bpm |-> 120, should_loop |-> FALSE,
     base_duration |-> "sixteenth", sample_rate |-> PlaySampleRate]

----------------------------------------------------------------------------
(* Melody: the object and its builder methods *)

NoneKey == [some |-> FALSE, val |-> NoKey]

SomeKey(k) == [some |-> TRUE, val |-> k]

NoMelody ==
    [notes |-> <<>>, key |-> NoneKey, sample_rate |-> 0, bpm |-> 0,
     base_note_duration |-> 0, sixteenth_note_duration |-> 0,
     scale_intervals |-> <<>>, note_elements |-> <<>>, should_loop |-> FALSE,
     base_duration |-> "none"]

\* Melody::new up to the expansion loop
MelodyOf(config) ==
    LET d == CalculateDurations(config.bpm, config.base_duration)
    IN  [notes |-> <<>>, key |-> SomeKey(config.key),
         sample_rate |-> config.sample_rate, bpm |-> config.bpm,
         base_note_duration |-> d.base, sixteenth_note_duration |-> d.sixteenth,
         scale_intervals |-> config.scale_intervals,
         note_elements |-> config.note_elements,
         should_loop |-> config.should_loop,
         base_duration |-> config.base_duration]

\* main.rs up to its expansion loop: Melody::in_key(config.key), with the
\* locals of main kept in the same record; every symbol lasts a sixteenth
LegacyMelodyOf(config) ==
    LET d == CalculateDurationsLegacy(config.bpm)
    IN  [notes |-> <<>>, key |-> SomeKey(config.key),
         sample_rate |-> PlaySampleRate, bpm |-> config.bpm,
         base_note_duration |-> d.sixteenth,
         sixteenth_note_duration |-> d.sixteenth,
         scale_intervals |-> config.scale_intervals,
         note_elements |-> config.note_elements,
         should_loop |-> config.should_loop,
         base_duration |-> config.base_duration]

FromKeyInterval(impl, k, i, duration) ==
    LET r == NoteAtIntervalOf(impl, k, i)
    IN  MusicNoteNew(r.note, r.octave, duration)

AddNoteTo(m, note, octave, duration) ==
    [m EXCEPT !.notes = Append(@, MusicNoteNew(note, octave, duration))]

\* the caller has checked that a key is set
AddIntervalTo(impl, m, i, duration) ==
    [m EXCEPT !.notes = Append(@, FromKeyInterval(impl, m.key.val, i, duration))]

RECURSIVE AddIntervalsTo(_, _, _, _)
AddIntervalsTo(impl, m, intervals, duration) ==
    IF intervals = <<>> THEN m
    ELSE AddIntervalsTo(impl, AddIntervalTo(impl, m, Head(intervals), duration),
                        Tail(intervals), duration)

AddRestTo(m, duration) ==
    [m EXCEPT !.notes = Append(@, MusicNoteNew("Rest", 0, duration))]

\* mutant: the notes already appended follow the new key
SetKeyRetuning(m, k) ==
    [m EXCEPT !.key = SomeKey(k),
              !.notes = [n \in DOMAIN @ |->
                            MusicNoteNew(k.root, k.octave, @[n].duration)]]

SetKeyTo(m, k) == [m EXCEPT !.key = SomeKey(k)]

----------------------------------------------------------------------------
(* Melody: one iteration of the expansion loop *)

\* mutant: position 0 passes the range test
InScaleFromZero(position, scale) == position <= Len(scale)

InScale(position, scale) == ~(position = 0 \/ position > Len(scale))

\* scale_intervals[position - 1]; None stands for the panic of an index out
\* of the table (or of `position - 1` underflowing)
ScaleAt(scale, position) ==
    IF position >= 1 /\ position - 1 < Len(scale)
    THEN Some(scale[position]) ELSE None

IntervalOf(base_interval, octave_offset) == base_interval + (octave_offset * 12)

RECURSIVE SustainsEnd(_, _)

\* mutant: the sustains are left for the outer loop
SustainsEndNone(elements, j) == j

\* the inner loop from j on: the index of the first element that is not a
\* Sustain, or the length (indices count from 0)
SustainsEnd(elements, j) ==
    IF j < Len(elements) /\ elements[j + 1].kind = "Sustain"
    THEN SustainsEnd(elements, j + 1) ELSE j

\* mutant: a rest lasts a sixteenth whatever the base unit is
ExpandRestSixteenth(m) == AddRestTo(m, m.sixteenth_note_duration)

ExpandRest(m) == AddRestTo(m, m.base_note_duration)

\* mutant: a skipped Note leaves the index where it is
SkipToSame(elements, i) == i

\* mutant: a skipped Note takes the Sustains behind it along
SkipPastSustains(elements, i) == SustainsEnd(elements, i + 1)

\* `i += 1; continue` behind the warning for a position out of range
SkipTo(elements, i) == i + 1

\* the body of `while i < note_elements.len()`
ExpandOne(impl, m, i) ==
    LET e == m.note_elements[i + 1]
    IN  IF e.kind = "Note"
        THEN IF ~InScale(e.position, m.scale_intervals)
             THEN [mel |-> m, i |-> SkipTo(m.note_elements, i), ok |-> TRUE]
             ELSE LET base_interval == ScaleAt(m.scale_intervals, e.position)
                  IN  IF ~base_interval.some
                      THEN [mel |-> m, i |-> i, ok |-> FALSE]
                      ELSE LET iv == IntervalOf(base_interval.val, e.octave_offset)
                               j == SustainsEnd(m.note_elements, i + 1)
                               sustain_count == j - (i + 1)
                               total_duration ==
                                   m.base_note_duration
                                   + m.sixteenth_note_duration * sustain_count
                           IN  [mel |-> AddIntervalTo(impl, m, iv, total_duration),
                                i |-> j, ok |-> TRUE]
        ELSE [mel |-> ExpandRest(m), i |-> i + 1, ok |-> TRUE]

----------------------------------------------------------------------------
(* Melody::play *)

\* Square::from_note (SquareWave::from_note in the legacy Melody): a finite
\* generator; the frequency is held in sixteenths of a hertz
FromNote(impl, note, sample_rate) ==
    [kind |-> IF impl = "music" THEN "Square" ELSE "SquareWave",
     frequency16 |-> Frequency16(note.note, note.octave),
     sample_rate |-> sample_rate, phase |-> 0, samples_played |-> 0,
     limit |-> Some(TotalSamples(note.duration, sample_rate))]

\* mutant: rests are not handed to the sink
HandedAudible(impl, m) ==
    LET audible == SelectSeq(m.notes, LAMBDA n : n.note # "Rest")
    IN  [n \in 1..Len(audible) |-> FromNote(impl, audible[n], m.sample_rate)]

\* what one play call appends to the sink
Handed(impl, m) ==
    [n \in 1..Len(m.notes) |-> FromNote(impl, m.notes[n], m.sample_rate)]

----------------------------------------------------------------------------
(* The melody scenarios: expansion and playback; the builder methods *)

NoOp ==
    [op |-> "none", note |-> MusicNoteNew("Rest", 0, 0), interval |-> 0,
     key |-> NoKey, count |-> 0]

InitMelody ==
    /\ melImpl = "music"
    /\ mel = NoMelody
    /\ expI = 0
    /\ pcM = "start"
    /\ lastOp = NoOp
    /\ sink = <<>>
    /\ plays = 0
    /\ slept = 0

MelodyNew ==
    /\ pcM = "start"
    /\ \E config \in Configs : mel' = MelodyOf(config)
    /\ melImpl' = "music"
    /\ expI' = 0
    /\ pcM' = "expanding"
    /\ lastOp' = [NoOp EXCEPT !.op = "new"]
    /\ UNCHANGED <<sink, plays, slept, exceptMelody>>

\* the legacy main always expands at the sixteenth
LegacyMain ==
    /\ pcM = "start"
    /\ \E config \in Configs :
          /\ config.base_duration = "sixteenth"
          /\ mel' = LegacyMelodyOf(config)
    /\ melImpl' = "legacy"
    /\ expI' = 0
    /\ pcM' = "expanding"
    /\ lastOp' = [NoOp EXCEPT !.op = "new"]
    /\ UNCHANGED <<sink, plays, slept, exceptMelody>>

ExpandStep ==
    /\ pcM = "expanding"
    /\ expI < Len(mel.note_elements)
    /\ LET r == ExpandOne(melImpl, mel, expI)
       IN  /\ mel' = r.mel
           /\ expI' = r.i
           /\ pcM' = IF r.ok THEN "expanding" ELSE "panicked"
    /\ lastOp' = [NoOp EXCEPT !.op = "expand"]
    /\ UNCHANGED <<melImpl, sink, plays, slept, exceptMelody>>

ExpandDone ==
    /\ pcM = "expanding"
    /\ ~(expI < Len(mel.note_elements))
    /\ pcM' = "built"
    /\ lastOp' = [NoOp EXCEPT !.op = "built"]
    /\ UNCHANGED <<melImpl, mel, expI, sink, plays, slept, exceptMelody>>

\* mutant: the wait counts the scheduled notes
IterationOfNotes(m) == Len(m.notes) * m.base_note_duration

\* total_elements as u64 * base_note_duration.as_millis() as u64 (the legacy
\* main multiplies by the sixteenth, its base unit)
IterationDurationMs(m) == Len(m.note_elements) * m.base_note_duration

\* cli::play and the legacy main: one play call and the sleep behind it, once
\* or once per turn of `loop`
Play ==
    /\ pcM = "built"
    /\ plays < MaxPlays
    /\ plays = 0 \/ mel.should_loop
    /\ sink' = sink \o Handed(melImpl, mel)
    /\ plays' = plays + 1
    /\ slept' = slept + IterationDurationMs(mel)
    /\ lastOp' = [NoOp EXCEPT !.op = "play"]
    /\ UNCHANGED <<melImpl, mel, expI, pcM, exceptMelody>>

BuilderKeys == {KeyNew("C", 4), KeyNew("A", 3)}

BuilderIntervals == {-1, 0, 14}

BuilderIntervalLists == {<<>>, <<0>>, <<7, -1>>}

BuilderConfigs ==
    {[DefaultConfig EXCEPT !.note_elements = es] : es \in {<<>>, <<NoteEl(1, 0)>>}}

\* Melody::new(MelodyConfig { note_elements, ..Default::default() })
MelodyNewDefault ==
    /\ pcM = "start"
    /\ \E config \in BuilderConfigs : mel' = MelodyOf(config)
    /\ melImpl' = "music"
    /\ expI' = 0
    /\ pcM' = "expanding"
    /\ lastOp' = [NoOp EXCEPT !.op = "new"]
    /\ UNCHANGED <<sink, plays, slept, exceptMelody>>

LegacyNew ==
    /\ pcM = "start"
    /\ mel' = [NoMelody EXCEPT !.sample_rate = PlaySampleRate]
    /\ melImpl' = "legacy"
    /\ pcM' = "built"
    /\ lastOp' = [NoOp EXCEPT !.op = "new"]
    /\ UNCHANGED <<expI, sink, plays, slept, exceptMelody>>

LegacyInKey ==
    /\ pcM = "start"
    /\ \E k \in BuilderKeys :
          mel' = [NoMelody EXCEPT !.key = SomeKey(k), !.sample_rate = PlaySampleRate]
    /\ melImpl' = "legacy"
    /\ pcM' = "built"
    /\ lastOp' = [NoOp EXCEPT !.op = "new"]
    /\ UNCHANGED <<expI, sink, plays, slept, exceptMelody>>

AddNote ==
    /\ pcM = "built"
    /\ Len(mel.notes) < MaxNotes
    /\ \E n \in {"E", "Rest"} :
          /\ mel' = AddNoteTo(mel, n, 5, 250)
          /\ lastOp' = [NoOp EXCEPT !.op = "add_note",
                                    !.note = MusicNoteNew(n, 5, 250)]
    /\ UNCHANGED <<melImpl, expI, pcM, sink, plays, slept, exceptMelody>>

\* mutant: a Melody without a key passes for one with a key
HasKeyAlways(m) == TRUE

\* `if let Some(key) = self.key`; always true of the current Melody
HasKey(m) == m.key.some

\* the legacy add_interval panics when no key was ever set
AddInterval ==
    /\ pcM = "built"
    /\ Len(mel.notes) < MaxNotes
    /\ \E i \in BuilderIntervals :
          /\ IF HasKey(mel)
             THEN mel' = AddIntervalTo(melImpl, mel, i, 125) /\ pcM' = pcM
             ELSE mel' = mel /\ pcM' = "panicked"
          /\ lastOp' = [NoOp EXCEPT !.op = "add_interval", !.interval = i,
                                    !.note = MusicNoteNew("Rest", 0, 125)]
    /\ UNCHANGED <<melImpl, expI, sink, plays, slept, exceptMelody>>

\* legacy only: one add_interval per entry
AddIntervals ==
    /\ pcM = "built"
    /\ melImpl = "legacy"
    /\ \E is \in BuilderIntervalLists :
          /\ Len(mel.notes) + Len(is) <= MaxNotes
          /\ IF HasKey(mel) \/ is = <<>>
             THEN mel' = AddIntervalsTo(melImpl, mel, is, 125) /\ pcM' = pcM
             ELSE mel' = mel /\ pcM' = "panicked"
          /\ lastOp' = [NoOp EXCEPT !.op = "add_intervals", !.count = Len(is)]
    /\ UNCHANGED <<melImpl, expI, sink, plays, slept, exceptMelody>>

AddRest ==
    /\ pcM = "built"
    /\ Len(mel.notes) < MaxNotes
    /\ mel' = AddRestTo(mel, 125)
    /\ lastOp' = [NoOp EXCEPT !.op = "add_rest",
                              !.note = MusicNoteNew("Rest", 0, 125)]
    /\ UNCHANGED <<melImpl, expI, pcM, sink, plays, slept, exceptMelody>>

SetKey ==
    /\ pcM = "built"
    /\ \E k \in BuilderKeys :
          /\ mel' = SetKeyTo(mel, k)
          /\ lastOp' = [NoOp EXCEPT !.op = "set_key", !.key = k]
    /\ UNCHANGED <<melImpl, expI, pcM, sink, plays, slept, exceptMelody>>

----------------------------------------------------------------------------
(* parse_note_notation *)

MaxTokens == 2
MaxChars == 5

DigitChars == <<"1", "2", "3", "4", "5", "6", "7", "8", "9">>

\* ch.to_digit(10) for '1'..='9'
ToDigit(ch) == CHOOSE d \in 1..9 : DigitChars[d] = ch

IsDigit(ch) == \E d \in 1..9 : DigitChars[d] = ch

\* the characters the scenario feeds the parser
Alphabet ==
    {"1", "2", "0", ".", "-", "^", "v", "V", "#", " ", "\t", "\n", "\r"}

NoError == [kind |-> "none", ch |-> ""]

\* "Note position 0 is invalid. Use positions 1-9."
PositionZero == [kind |-> "position_zero", ch |-> ""]

\* "Invalid character '{ch}' in note notation. ..."
InvalidCharacter(ch) == [kind |-> "invalid_character", ch |-> ch]

\* "No notes provided"
NoNotes == [kind |-> "no_notes", ch |-> ""]

NoParse == [tag |-> "none", elements |-> <<>>, error |-> NoError]

ParseOk(elements) == [tag |-> "Ok", elements |-> elements, error |-> NoError]

ParseErr(error) == [tag |-> "Err", elements |-> <<>>, error |-> error]

\* the locals on entry
ParserEntry == [elements |-> <<>>, current_octave_offset |-> 0, error |-> NoError]

\* `let mut current_octave_offset = 0i32` at the top of the for body
EnterToken(st) == [st EXCEPT !.current_octave_offset = 0]

\* mutant: 'v' leaves the register alone
ScanOneNoDown(st, ch) ==
    CASE IsDigit(ch) ->
             [st EXCEPT !.elements =
                 Append(@, NoteEl(ToDigit(ch), st.current_octave_offset))]
      [] ch = "0" -> [st EXCEPT !.error = PositionZero]
      [] ch = "." -> [st EXCEPT !.elements = Append(@, RestEl)]
      [] ch = "-" -> [st EXCEPT !.elements = Append(@, SustainEl)]
      [] ch = "^" -> [st EXCEPT !.current_octave_offset = @ + 1]
      [] ch = "v" -> st
      [] ch \in {" ", "\t"} -> st
      [] OTHER -> [st EXCEPT !.error = InvalidCharacter(ch)]

\* mutant: an upper-case 'V' shifts down as well
ScanOneUpperV(st, ch) ==
    CASE IsDigit(ch) ->
             [st EXCEPT !.elements =
                 Append(@, NoteEl(ToDigit(ch), st.current_octave_offset))]
      [] ch = "0" -> [st EXCEPT !.error = PositionZero]
      [] ch = "." -> [st EXCEPT !.elements = Append(@, RestEl)]
      [] ch = "-" -> [st EXCEPT !.elements = Append(@, SustainEl)]
      [] ch = "^" -> [st EXCEPT !.current_octave_offset = @ + 1]
      [] ch \in {"v", "V"} -> [st EXCEPT !.current_octave_offset = @ - 1]
      [] ch \in {" ", "\t"} -> st
      [] OTHER -> [st EXCEPT !.error = InvalidCharacter(ch)]

\* the body of `while let Some(ch) = chars.next()`: one match on ch
ScanOne(st, ch) ==
    CASE IsDigit(ch) ->
             [st EXCEPT !.elements =
                 Append(@, NoteEl(ToDigit(ch), st.current_octave_offset))]
      [] ch = "0" -> [st EXCEPT !.error = PositionZero]
      [] ch = "." -> [st EXCEPT !.elements = Append(@, RestEl)]
      [] ch = "-" -> [st EXCEPT !.elements = Append(@, SustainEl)]
      [] ch = "^" -> [st EXCEPT !.current_octave_offset = @ + 1]
      [] ch = "v" -> [st EXCEPT !.current_octave_offset = @ - 1]
      [] ch \in {" ", "\t"} -> st
      [] OTHER -> [st EXCEPT !.error = InvalidCharacter(ch)]

\* mutant: an empty element list is returned as a success
ReturnedAlways(st) == ParseOk(st.elements)

\* what the function returns when the for loop is through
Returned(st) ==
    IF st.elements = <<>> THEN ParseErr(NoNotes) ELSE ParseOk(st.elements)

\* the while loop over one token; it stops at the first error
RECURSIVE ScanToken(_, _)
ScanToken(st, chars) ==
    IF chars = <<>> \/ st.error # NoError THEN st
    ELSE ScanToken(ScanOne(st, Head(chars)), Tail(chars))

\* the for loop over the tokens
RECURSIVE ScanTokens(_, _)
ScanTokens(st, note_strings) ==
    IF note_strings = <<>> \/ st.error # NoError THEN st
    ELSE ScanTokens(ScanToken(EnterToken(st), Head(note_strings)),
                    Tail(note_strings))

\* the whole function on a list of tokens, each a sequence of characters
ParseNoteNotation(note_strings) ==
    LET st == ScanTokens(ParserEntry, note_strings)
    IN  IF st.error # NoError THEN ParseErr(st.error) ELSE Returned(st)

----------------------------------------------------------------------------
(* The parser scenario: the caller's tokens are read character by          *)
(* character as the loops reach them                                       *)

InitParse ==
    /\ pst = ParserEntry
    /\ tokIdx = 0
    /\ scanned = 0
    /\ lastCh = ""
    /\ tokShift = 0
    /\ callShift = 0
    /\ pResult = NoParse
    /\ pcP = "for"

\* the for loop enters the next token
BeginToken ==
    /\ pcP = "for"
    /\ tokIdx < MaxTokens
    /\ pst' = EnterToken(pst)
    /\ tokIdx' = tokIdx + 1
    /\ tokShift' = 0
    /\ lastCh' = ""
    /\ pcP' = "while"
    /\ UNCHANGED <<scanned, callShift, pResult, exceptParse>>

\* chars.next() is Some(ch)
ScanChar ==
    /\ pcP = "while"
    /\ scanned < MaxChars
    /\ \E ch \in Alphabet :
          LET st == ScanOne(pst, ch)
              shift == IF ch = "^" THEN 1 ELSE IF ch = "v" THEN -1 ELSE 0
          IN  /\ pst' = st
              /\ lastCh' = ch
              /\ tokShift' = tokShift + shift
              /\ callShift' = callShift + shift
              /\ pResult' = IF st.error # NoError THEN ParseErr(st.error)
                            ELSE pResult
              /\ pcP' = IF st.error # NoError THEN "done" ELSE "while"
    /\ scanned' = scanned + 1
    /\ UNCHANGED <<tokIdx, exceptParse>>

\* chars.next() is None
EndToken ==
    /\ pcP = "while"
    /\ pcP' = "for"
    /\ UNCHANGED <<pst, tokIdx, scanned, lastCh, tokShift, callShift, pResult,
                   exceptParse>>

\* the for loop is through
EndInput ==
    /\ pcP = "for"
    /\ pResult' = Returned(pst)
    /\ pcP' = "done"
    /\ UNCHANGED <<pst, tokIdx, scanned, lastCh, tokShift, callShift, exceptParse>>

----------------------------------------------------------------------------
(* The command line of play: create_melody_config and what follows it *)

\* str::to_uppercase on the key names the scenario draws
ToUppercase(s) ==
    CASE s = "a#" -> "A#"
      [] s = "cs" -> "CS"
      [] OTHER -> s

\* the match of get_scale_by_name on the lowercased name
GetScaleByName(name) ==
    LET n == ToLowercase(name)
    IN  CASE n = "major" -> Some(MAJOR_SCALE)
          [] n = "minor" -> Some(<<0, 2, 3, 5, 7, 8, 10, 12>>)
          [] n \in {"pentatonic", "penta"} -> Some(PENTATONIC_MAJOR)
          [] n \in {"minor_pentatonic", "minor_penta"} -> Some(<<0, 3, 5, 7, 10, 12>>)
          [] n = "blues" -> Some(<<0, 3, 5, 6, 7, 10, 12>>)
          [] n = "dorian" -> Some(<<0, 2, 3, 5, 7, 9, 10, 12>>)
          [] n = "phrygian" -> Some(<<0, 1, 3, 5, 7, 8, 10, 12>>)
          [] n = "lydian" -> Some(<<0, 2, 4, 6, 7, 9, 11, 12>>)
          [] n = "mixolydian" -> Some(<<0, 2, 4, 5, 7, 9, 10, 12>>)
          [] n = "locrian" -> Some(<<0, 1, 3, 5, 6, 8, 10, 12>>)
          [] n \in {"harmonic_minor", "harmonic"} -> Some(<<0, 2, 3, 5, 7, 8, 11, 12>>)
          [] n = "hungarian" -> Some(<<0, 2, 3, 6, 7, 8, 11, 12>>)
          [] n = "japanese" -> Some(<<0, 2, 3, 7, 8, 12>>)
          [] n = "arabic" -> Some(<<0, 1, 4, 5, 7, 8, 11, 12>>)
          [] n = "spanish" -> Some(<<0, 1, 4, 5, 7, 8, 10, 12>>)
          [] n \in {"whole_tone", "wholetone"} -> Some(<<0, 2, 4, 6, 8, 10, 12>>)
          [] OTHER -> None

\* the match of parse_note_from_string on the uppercased name
ParseNoteFromString(note_str) ==
    LET n == ToUppercase(note_str)
    IN  CASE n = "C" -> [some |-> TRUE, val |-> "C"]
          [] n \in {"CS", "C#"} -> [some |-> TRUE, val |-> "Cs"]
          [] n = "D" -> [some |-> TRUE, val |-> "D"]
          [] n \in {"DS", "D#"} -> [some |-> TRUE, val |-> "Ds"]
          [] n = "E" -> [some |-> TRUE, val |-> "E"]
          [] n = "F" -> [some |-> TRUE, val |-> "F"]
          [] n \in {"FS", "F#"} -> [some |-> TRUE, val |-> "Fs"]
          [] n = "G" -> [some |-> TRUE, val |-> "G"]
          [] n \in {"GS", "G#"} -> [some |-> TRUE, val |-> "Gs"]
          [] n = "A" -> [some |-> TRUE, val |-> "A"]
          [] n \in {"AS", "A#"} -> [some |-> TRUE, val |-> "As"]
          [] n = "B" -> [some |-> TRUE, val |-> "B"]
          [] OTHER -> [some |-> FALSE, val |-> "Rest"]

\* Args of the play subcommand
NoArgs ==
    [scale |-> "", key |-> "", notes |-> <<>>, bpm |-> 0, loop |-> FALSE,
     duration |-> ""]

\* the command lines of the scenario.  notes: no token; one token of two
\* notes and a sustain; two tokens; a zero position; a token of modifiers
\* only; an empty token
CliArgs ==
    [scale : {"major", "Penta", "nope"},
     key : {"C", "a#", "H"},
     notes : {<<>>, << <<"1", "-", "2">> >>, << <<"^", "1">>, <<".">> >>,
              << <<"1", "0">> >>, << <<"v", " ">> >>, << <<>> >>},
     bpm : {0, 60, 120, MaxBpm, MaxBpm + 1},
     loop : BOOLEAN,
     duration : {"sixteenth", "4", "Quarter", "triplet"}]

\* Err(String) of create_melody_config: the check that failed, and the
\* ParseError behind a notation failure
CliError(check) == [check |-> check, parse |-> NoError]

NoConfig ==
    [scale_intervals |-> <<>>, note_elements |-> <<>>, key |-> NoKey,
     bpm |-> 0, should_loop |-> FALSE, base_duration |-> "none",
     sample_rate |-> 0]

NoCliResult == [tag |-> "none", config |-> NoConfig, error |-> CliError("none")]

CliErr(error) == [tag |-> "Err", config |-> NoConfig, error |-> error]

DurationKnown(duration) ==
    ToLowercase(duration) \in
        {"whole", "1", "half", "2", "quarter", "4", "eighth", "8",
         "sixteenth", "16"}

\* the notes of a run without any notation token
DefaultElements == [n \in 1..8 |-> NoteEl(n, 0)]

\* mutant: the parser is called whether or not there is a token
NotesGivenAlways(args) == TRUE

\* `args.notes.is_empty()`, negated
NotesGiven(args) == args.notes # <<>>

\* the checks that follow the duration check; the legacy main has these only
ConfigAfterDuration(args) ==
    LET scale == GetScaleByName(args.scale)
        note == ParseNoteFromString(args.key)
        parsed == ParseNoteNotation(args.notes)
    IN  IF ~scale.some THEN CliErr(CliError("scale"))
        ELSE IF ~note.some THEN CliErr(CliError("key"))
        ELSE IF NotesGiven(args) /\ parsed.tag = "Err"
        THEN CliErr([check |-> "notation", parse |-> parsed.error])
        ELSE [tag |-> "Ok",
              config |->
                  [scale_intervals |-> scale.val,
                   note_elements |->
                       IF ~NotesGiven(args) THEN DefaultElements
                       ELSE parsed.elements,
                   key |-> KeyNew(note.val, 4), bpm |-> args.bpm,
                   should_loop |-> args.loop, base_duration |-> args.duration,
                   sample_rate |-> PlaySampleRate],
              error |-> CliError("none")]

\* mutant: the duration name is not checked
CreateMelodyConfigAnyDuration(args) ==
    IF args.bpm = 0 \/ args.bpm > MaxBpm THEN CliErr(CliError("bpm"))
    ELSE ConfigAfterDuration(args)

CreateMelodyConfig(args) ==
    IF args.bpm = 0 \/ args.bpm > MaxBpm THEN CliErr(CliError("bpm"))
    ELSE IF ~DurationKnown(args.duration) THEN CliErr(CliError("duration"))
    ELSE ConfigAfterDuration(args)

\* the legacy main has no --duration option
CreateMelodyConfigLegacy(args) ==
    IF args.bpm = 0 \/ args.bpm > MaxBpm THEN CliErr(CliError("bpm"))
    ELSE ConfigAfterDuration(args)

InitCli ==
    /\ cliArgs = NoArgs
    /\ cliResult = NoCliResult

\* cli::play up to its first melody.play: the Err arm prints and exits
CliPlay ==
    /\ pcM = "start"
    /\ \E args \in CliArgs :
          LET r == CreateMelodyConfig(args)
          IN  /\ cliArgs' = args
              /\ cliResult' = r
              /\ IF r.tag = "Ok"
                 THEN mel' = MelodyOf(r.config) /\ pcM' = "expanding"
                 ELSE mel' = mel /\ pcM' = "exited"
    /\ melImpl' = "music"
    /\ expI' = 0
    /\ lastOp' = [NoOp EXCEPT !.op = "new"]
    /\ UNCHANGED <<sink, plays, slept, exceptCli>>

\* the legacy main, whose duration is always the sixteenth
CliMain ==
    /\ pcM = "start"
    /\ \E args \in CliArgs :
          LET r == CreateMelodyConfigLegacy(args)
          IN  /\ args.duration = "sixteenth"
              /\ cliArgs' = args
              /\ cliResult' = r
              /\ IF r.tag = "Ok"
                 THEN mel' = LegacyMelodyOf(r.config) /\ pcM' = "expanding"
                 ELSE mel' = mel /\ pcM' = "exited"
    /\ melImpl' = "legacy"
    /\ expI' = 0
    /\ lastOp' = [NoOp EXCEPT !.op = "new"]
    /\ UNCHANGED <<sink, plays, slept, exceptCli>>

----------------------------------------------------------------------------
(* cli::jam: the event loop over key presses and releases, for the default
   scale, major, in C *)

MaxArrows == 6
MaxSinks == 6

\* u8 `+` and `-`: past the ends the debug build panics and the release
\* build wraps
AddU8(a, b) ==
    IF a + b > 255
    THEN {[panic |-> TRUE, val |-> a], [panic |-> FALSE, val |-> (a + b) % 256]}
    ELSE {[panic |-> FALSE, val |-> a + b]}

SubU8(a, b) ==
    IF a - b < 0
    THEN {[panic |-> TRUE, val |-> a], [panic |-> FALSE, val |-> (a - b) % 256]}
    ELSE {[panic |-> FALSE, val |-> a - b]}

\* KeyModifiers bits
NONE == 0
SHIFT == 1
CONTROL == 2
ALT == 4

\* KeyModifiers::from_bits_truncate(i as u8) for the indices of a triad
FromBitsTruncate(i) == i % 64

KeyId(code, modifiers) == [code |-> code, modifiers |-> modifiers]

\* the keys the scenario sends: the two arrows, a note key of the +1 row in
\* upper case, a note key of the +3 row, the exit key, and a chord key without
\* and with ALT
JamKeys ==
    {KeyId("Up", NONE), KeyId("Down", NONE), KeyId("Q", SHIFT), KeyId("c", NONE),
     KeyId("c", CONTROL), KeyId("-", NONE), KeyId("-", ALT)}

ToAsciiLowercase(c) == IF c = "Q" THEN "q" ELSE c

\* iter().position(): the index from 0, None when absent
PositionIn(keys, c) ==
    IF \E n \in 1..Len(keys) : keys[n] = c
    THEN Some((CHOOSE n \in 1..Len(keys) : keys[n] = c) - 1)
    ELSE None

\* (octave_offset, scale_index)
GetKeyMapping(c, scale_length) ==
    LET number_keys == <<"1", "2", "3", "4", "5", "6", "7", "8", "9", "0">>
        qwerty_keys == <<"q", "w", "e", "r", "t", "y", "u", "i", "o", "p">>
        asdf_keys == <<"a", "s", "d", "f", "g", "h", "j", "k", "l", ";">>
        zxcv_keys == <<"z", "x", "c", "v", "b", "n", "m", ",", ".", "/">>
        c_lower == ToAsciiLowercase(c)
        hit(keys) == PositionIn(keys, c_lower).some
                     /\ PositionIn(keys, c_lower).val < scale_length
    IN  IF hit(number_keys)
        THEN [octave_offset |-> 0, scale_index |-> PositionIn(number_keys, c_lower)]
        ELSE IF hit(qwerty_keys)
        THEN [octave_offset |-> 1, scale_index |-> PositionIn(qwerty_keys, c_lower)]
        ELSE IF hit(asdf_keys)
        THEN [octave_offset |-> 2, scale_index |-> PositionIn(asdf_keys, c_lower)]
        ELSE IF hit(zxcv_keys)
        THEN [octave_offset |-> 3, scale_index |-> PositionIn(zxcv_keys, c_lower)]
        ELSE [octave_offset |-> 0, scale_index |-> None]

\* build_diatonic_triad on the major scale: root, third and fifth
BuildDiatonicTriad(scale, degree) ==
    LET scale_len == Len(scale) - 1
    IN  <<scale[degree + 1], scale[((degree + 2) % scale_len) + 1],
          scale[((degree + 4) % scale_len) + 1]>>

\* the intervals of the chord on a chord key
GetChordMapping(c) ==
    LET chord_keys == <<"-", "=", "[", "]", ";", "'">>
        pos == PositionIn(chord_keys, c)
    IN  IF pos.some /\ pos.val < 6
        THEN [some |-> TRUE, val |-> BuildDiatonicTriad(MAJOR_SCALE, pos.val)]
        ELSE [some |-> FALSE, val |-> <<>>]

NoEvent ==
    [kind |-> "none", code |-> "", modifiers |-> NONE, made |-> 0,
     note |-> MusicNoteNew("Rest", 0, 0)]

InitJam ==
    /\ jamOctave = 4
    /\ active_keys = <<>>
    /\ connected = 0
    /\ stopped = 0
    /\ arrows = 0
    /\ pcJ = "loop"
    /\ jamEvent = NoEvent

\* HashMap::insert of a sink under each of the keys; a sink whose entry is
\* overwritten is dropped without a stop call
InsertAll(map, keys) ==
    [k \in DOMAIN map \cup keys |-> "sink"]

\* HashMap::remove of each of the keys
RemoveAll(map, keys) == [k \in DOMAIN map \ keys |-> map[k]]

\* KeyEventKind::Press
JamPress ==
    /\ pcJ = "loop"
    /\ \E key_id \in JamKeys :
          LET code == key_id.code
              mapping == GetKeyMapping(code, Min(Len(MAJOR_SCALE) - 1, 7))
              chord == GetChordMapping(code)
              ev == [NoEvent EXCEPT !.kind = "Press", !.code = code,
                                    !.modifiers = key_id.modifiers]
          IN  IF code = "c" /\ key_id.modifiers = CONTROL
              THEN \* break, and the loop that stops the sinks left in the map
                   /\ pcJ' = "exited"
                   /\ stopped' = stopped + Cardinality(DOMAIN active_keys)
                   /\ active_keys' = <<>>
                   /\ jamEvent' = ev
                   /\ UNCHANGED <<jamOctave, arrows, connected>>
              ELSE IF code \in {"Up", "Down"}
              THEN /\ arrows < MaxArrows
                   /\ \E r \in (IF code = "Up" THEN AddU8(jamOctave, 1)
                                ELSE SubU8(jamOctave, 1)) :
                         /\ jamOctave' = r.val
                         /\ pcJ' = IF r.panic THEN "panicked" ELSE "loop"
                   /\ arrows' = arrows + 1
                   /\ jamEvent' = ev
                   /\ UNCHANGED <<active_keys, connected, stopped>>
              ELSE IF mapping.scale_index.some
              THEN IF key_id \notin DOMAIN active_keys
                   THEN /\ connected < MaxSinks
                        /\ \E r \in AddU8(jamOctave, mapping.octave_offset) :
                              IF r.panic
                              THEN /\ pcJ' = "panicked"
                                   /\ jamEvent' = ev
                                   /\ UNCHANGED <<active_keys, connected>>
                              ELSE /\ pcJ' = "loop"
                                   /\ connected' = connected + 1
                                   /\ active_keys' = InsertAll(active_keys, {key_id})
                                   /\ jamEvent' =
                                          [ev EXCEPT
                                              !.made = 1,
                                              !.note =
                                                  FromKeyInterval("music",
                                                      KeyNew("C", r.val),
                                                      MAJOR_SCALE[mapping.scale_index.val + 1],
                                                      10000)]
                        /\ UNCHANGED <<jamOctave, arrows, stopped>>
                   ELSE /\ jamEvent' = ev
                        /\ UNCHANGED <<jamOctave, arrows, active_keys, connected,
                                       stopped, pcJ>>
              ELSE IF chord.some /\ key_id \notin DOMAIN active_keys
              THEN \* play_chord: one sink per interval, stored under the
                   \* key code with the index as modifiers
                   LET n == Len(chord.val)
                   IN  /\ connected + n <= MaxSinks
                       /\ connected' = connected + n
                       /\ active_keys' =
                              InsertAll(active_keys,
                                        {KeyId(code, FromBitsTruncate(i)) : i \in 0..(n - 1)})
                       /\ jamEvent' = [ev EXCEPT !.made = n]
                       /\ UNCHANGED <<jamOctave, arrows, stopped, pcJ>>
              ELSE /\ jamEvent' = ev
                   /\ UNCHANGED <<jamOctave, arrows, active_keys, connected,
                                  stopped, pcJ>>
    /\ UNCHANGED exceptJam

\* KeyEventKind::Release: the entry of the key id, then every entry of the
\* same key code, each sink stopped
JamRelease ==
    /\ pcJ = "loop"
    /\ \E key_id \in JamKeys :
          LET first == {key_id} \cap DOMAIN active_keys
              rest == {k \in DOMAIN active_keys \ first : k.code = key_id.code}
          IN  /\ active_keys' = RemoveAll(RemoveAll(active_keys, first), rest)
              /\ stopped' = stopped + Cardinality(first) + Cardinality(rest)
              /\ jamEvent' = [NoEvent EXCEPT !.kind = "Release",
                                             !.code = key_id.code,
                                             !.modifiers = key_id.modifiers]
    /\ UNCHANGED <<jamOctave, arrows, connected, pcJ, exceptJam>>

\* any other kind of key event (a Repeat) does nothing
JamRepeat ==
    /\ pcJ = "loop"
    /\ \E key_id \in JamKeys :
          jamEvent' = [NoEvent EXCEPT !.kind = "Repeat", !.code = key_id.code,
                                      !.modifiers = key_id.modifiers]
    /\ UNCHANGED <<jamOctave, arrows, active_keys, connected, stopped, pcJ, exceptJam>>

----------------------------------------------------------------------------
(* Specifications *)

NextPitch ==
    \/ NewKey
    \/ ResolveInterval
    \/ ResolveBack
    \/ CallFromSemitone
    \/ CallToFromSemitone

NextGen ==
    \/ NewWaveFinite
    \/ NewWaveInfinite
    \/ NewSquareFinite
    \/ NewSquareInfinite
    \/ NewSquareWave
    \/ SquareFromNote
    \/ CallNext

NextMelody ==
    \/ MelodyNew
    \/ LegacyMain
    \/ ExpandStep
    \/ ExpandDone
    \/ Play

NextBuilder ==
    \/ MelodyNewDefault
    \/ LegacyNew
    \/ LegacyInKey
    \/ ExpandStep
    \/ ExpandDone
    \/ AddNote
    \/ AddInterval
    \/ AddIntervals
    \/ AddRest
    \/ SetKey

NextDur == CallCalculateDurations

NextParse ==
    \/ BeginToken
    \/ ScanChar
    \/ EndToken
    \/ EndInput

NextCli ==
    \/ CliPlay
    \/ CliMain
    \/ ExpandStep
    \/ ExpandDone
    \/ Play

NextJam ==
    \/ JamPress
    \/ JamRelease
    \/ JamRepeat

Init ==
    /\ InitPitch /\ InitGen /\ InitMelody /\ InitDur /\ InitParse /\ InitCli
    /\ InitJam

SpecPitch == Init /\ [][NextPitch]_vars

SpecGen == Init /\ [][NextGen]_vars

SpecMelody == Init /\ [][NextMelody]_vars

SpecBuilder == Init /\ [][NextBuilder]_vars

SpecDur == Init /\ [][NextDur]_vars

SpecParse == Init /\ [][NextParse]_vars

SpecCli == Init /\ [][NextCli]_vars

SpecJam == Init /\ [][NextJam]_vars

\* the expansion loop and the code behind it run on without waiting
SpecMelodyFair == SpecMelody /\ WF_vars(ExpandStep) /\ WF_vars(ExpandDone)

----------------------------------------------------------------------------
(* Properties of the pitch model, checked under SpecPitch *)

Resolved == pcK \in {"resolved", "back"}

\* the pitch class at index (root_semitone + i) mod 12, floor semantics
FloorPitch(k, i) == PitchClasses[((ToSemitone(k.root) + i) % 12) + 1]

\* k.octave + floor((root_semitone + i) / 12)
FloorOctave(k, i) == k.octave + ((ToSemitone(k.root) + i) \div 12)

\* C1: for a key with a non-Rest root and a signed interval i, music/key.rs's
\* note_at_interval returns the pitch class of index (root_semitone + i) mod 12
\* (floor semantics) and, where the octave is not clamped, the octave
\* key.octave + floor((root_semitone + i) / 12); interval -1 from root C is B,
\* one octave down.
C1_FloorSemantics ==
    (Resolved /\ keyImpl = "music" /\ key.root # "Rest") =>
        /\ result.note = FloorPitch(key, interval)
        /\ ToSemitone(result.note) \in 0..11
        /\ (FloorOctave(key, interval) >= 0 =>
               result.octave = FloorOctave(key, interval))
        /\ (key.root = "C" /\ interval = -1 =>
               /\ result.note = "B"
               /\ (key.octave >= 1 => result.octave = key.octave - 1))

C1_Witness ==
    /\ pcK = "resolved"
    /\ keyImpl = "music"
    /\ key = KeyNew("C", 4)
    /\ interval = -1
    /\ result = [note |-> "B", octave |-> 3]

\* C2: note_at_interval never yields a negative or wrapped-around octave:
\* whenever key.octave + floor((root_semitone + i) / 12) is below 0 the
\* returned octave is exactly 0 and the pitch class is still the floor-mod
\* pitch (Key(C,0) with interval -1 gives B at octave 0).  Stated of both
\* implementations of Key the claim names.
C2_ClampKeepsPitch ==
    (Resolved /\ key.root # "Rest" /\ FloorOctave(key, interval) < 0) =>
        /\ result.octave = 0
        /\ result.note = FloorPitch(key, interval)

\* the same statement of music/key.rs alone
C2_ClampKeepsPitchMusic == keyImpl = "music" => C2_ClampKeepsPitch

C2_ClampReached ==
    /\ pcK = "resolved"
    /\ keyImpl = "music"
    /\ key = KeyNew("C", 0)
    /\ interval = -1
    /\ result = [note |-> "B", octave |-> 0]

\* C3: for a key K with a non-Rest root and i in [-24, 24], note_at_interval(K, i)
\* followed by note_at_interval(result as key, -i) returns K's pitch class and
\* octave, except where the first or the second step clamps the octave at 0.
C3_RoundTrip ==
    (/\ pcK = "back"
     /\ keyImpl = "music"
     /\ key.root # "Rest"
     /\ FloorOctave(key, interval) >= 0
     /\ FloorOctave(KeyNew(result.note, result.octave), -interval) >= 0) =>
        back = [note |-> key.root, octave |-> key.octave]

C3_Witness ==
    /\ pcK = "back"
    /\ keyImpl = "music"
    /\ key = KeyNew("D", 2)
    /\ interval = -MaxInterval
    /\ result = [note |-> "D", octave |-> 0]
    /\ back = [note |-> "D", octave |-> 2]

\* C4: Note::from_semitone is total over the integers: for every integer n,
\* negative included, it returns the pitch class of index ((n mod 12) + 12) mod 12,
\* and from_semitone(to_semitone(p)) = p for each of the 12 pitch classes.
C4_FromSemitoneFloorMod ==
    pcK = "semitone" =>
        /\ semOut = PitchClasses[(((semIn % 12) + 12) % 12) + 1]
        /\ (noteIn # "none" => semOut = noteIn)

\* the part of C4 the code does satisfy: non-negative arguments and the
\* round trip from to_semitone
C4_FromSemitoneNonNegative ==
    (pcK = "semitone" /\ semIn >= 0) =>
        /\ semOut = PitchClasses[(semIn % 12) + 1]
        /\ (noteIn # "none" => semOut = noteIn)

----------------------------------------------------------------------------
(* Properties of the generators, checked under SpecGen *)

Live == gen.kind # "none"

\* the end of the sequence has been signalled by the last call
Ended == calls > 0 /\ ~out.some

\* duration * sample_rate, in thousandths of a sample
Product == cfg.duration * cfg.sample_rate

C6_ExhaustedStays ==
    [][(Live /\ gen.limit.some /\ emitted >= gen.limit.val) =>
          /\ gen' = gen
          /\ emitted' = emitted
          /\ (calls' # calls => ~out'.some)]_vars

C6_Witness ==
    /\ Live
    /\ gen.limit.some
    /\ gen.limit.val > 0
    /\ emitted = gen.limit.val
    /\ calls >= emitted + 2
    /\ ~out.some
    /\ gen.phase_step % gen.sample_rate # 0

\* C7: every sample a generator emits for a zero-frequency (Rest) note is 0.0,
\* for every wave shape and sample index, the generators Melody::play builds
\* for rests included.
C7_RestIsSilent ==
    (Live /\ cfg.frequency = 0 /\ out.some) => out.val = 0

\* C8: in every generator state the phase lies in [0, 1): after each next()
\* it has been advanced by frequency / sample_rate and wrapped with a true
\* modulo, for every generator variant, also when the step exceeds 1.
C8_PhaseWrapped ==
    Live =>
        /\ 0 <= gen.phase
        /\ gen.phase < gen.sample_rate
        /\ gen.phase = (emitted * cfg.frequency) % cfg.sample_rate

\* the same statement of Wave and Square, which wrap with rem_euclid
C8_PhaseWrappedRemEuclid == gen.kind \in {"Wave", "Square"} => C8_PhaseWrapped

\* C9: every sample next() emits lies within [-1.0, 1.0], for every wave
\* shape, frequency and sample rate, finite or infinite.
C9_SampleRange == out.some => (-1000 <= out.val /\ out.val <= 1000)

C9_Witness ==
    /\ gen.kind = "Wave"
    /\ gen.wave_type = "Triangle"
    /\ out = Some(1000)
    /\ emitted >= 2
    /\ gen.phase = 0

\* C10: on a finite generator the remaining sample count is the budget minus
\* the samples emitted and never negative; on an infinite one the remaining
\* count and the total duration are unknown; the channel count is 1 and the
\* sample rate stays the one given at construction.
C10_Metadata ==
    Live =>
        /\ Channels(gen) = 1
        /\ SampleRate(gen) = cfg.sample_rate
        /\ (cfg.finite =>
               /\ emitted <= Product \div 1000
               /\ CurrentSpanLen(gen) = Some((Product \div 1000) - emitted)
               /\ CurrentSpanLen(gen).val >= 0)
        /\ (~cfg.finite =>
               /\ CurrentSpanLen(gen) = None
               /\ TotalDuration(gen) = None)

C10_Witness ==
    /\ Live
    /\ cfg.finite
    /\ emitted > 0
    /\ CurrentSpanLen(gen).val > 0
    /\ out.some

\* the generator at the phase the last emitted sample was computed from
Before(g) == [g EXCEPT !.phase = (g.phase - g.phase_step) % g.sample_rate]

\* C11: at one and the same phase the Square shape is +1.0 exactly when the
\* phase is below 0.5 and the Pulse shape is +1.0 exactly when it is below
\* 0.25: on [0.25, 0.5) Pulse gives -1.0 and Square +1.0, everywhere else in
\* [0, 1) they agree; the samples a Square or Pulse Wave emits follow this.
C11_SquareVsPulse ==
    gen.kind = "Wave" =>
        LET sr == gen.sample_rate
            p == gen.phase
            q == Before(gen).phase
        IN  /\ 0 <= p /\ p < sr
            /\ WaveSquare(gen) = (IF 2 * p < sr THEN 1000 ELSE -1000)
            /\ WavePulse(gen) = (IF 4 * p < sr THEN 1000 ELSE -1000)
            /\ (4 * p >= sr /\ 2 * p < sr) =>
                   (WavePulse(gen) = -1000 /\ WaveSquare(gen) = 1000)
            /\ ~(4 * p >= sr /\ 2 * p < sr) => WavePulse(gen) = WaveSquare(gen)
            /\ (out.some /\ gen.wave_type = "Square") =>
                   out.val = (IF 2 * q < sr THEN 1000 ELSE -1000)
            /\ (out.some /\ gen.wave_type = "Pulse") =>
                   out.val = (IF 4 * q < sr THEN 1000 ELSE -1000)

C11_Witness ==
    /\ gen.kind = "Wave"
    /\ gen.wave_type = "Pulse"
    /\ out = Some(-1000)
    /\ 4 * Before(gen).phase >= gen.sample_rate
    /\ 2 * Before(gen).phase < gen.sample_rate
    /\ WaveSquare(Before(gen)) = 1000

----------------------------------------------------------------------------
(* Properties of the Melody builder, checked under SpecBuilder *)

\* C12: set_key leaves the notes already appended as they are and only
\* decides how add_interval resolves afterwards; every append keeps the
\* notes before it and puts exactly one note at the end (add_intervals: one
\* per interval given).
C12_AppendOnly ==
    [][LET old == mel.notes
           new == mel'.notes
           op == lastOp'.op
           returned == pcM' # "panicked"
       IN  /\ Len(new) >= Len(old)
           /\ SubSeq(new, 1, Len(old)) = old
           /\ op = "set_key" =>
                  (new = old /\ mel'.key = SomeKey(lastOp'.key))
           /\ op = "add_note" => new = Append(old, lastOp'.note)
           /\ op = "add_rest" =>
                  new = Append(old, MusicNoteNew("Rest", 0, lastOp'.note.duration))
           /\ (op = "add_interval" /\ returned) =>
                  /\ Len(new) = Len(old) + 1
                  /\ new[Len(new)].duration = lastOp'.note.duration
                  /\ LET r == NoteAtIntervalOf(melImpl, mel.key.val, lastOp'.interval)
                     IN  /\ new[Len(new)].note = r.note
                         /\ new[Len(new)].octave = r.octave
           /\ (op = "add_intervals" /\ returned) =>
                  Len(new) = Len(old) + lastOp'.count
           /\ op \in {"add_note", "add_rest", "add_interval", "add_intervals"} =>
                  mel'.key = mel.key
      ]_vars

\* an interval resolved in C4, the key changed to A3, the same interval
\* resolved again
C12_Witness ==
    /\ pcM = "built"
    /\ melImpl = "music"
    /\ lastOp.op = "add_interval"
    /\ lastOp.interval = 0
    /\ mel.key = SomeKey(KeyNew("A", 3))
    /\ mel.notes = <<MusicNoteNew("C", 4, 125), MusicNoteNew("A", 3, 125)>>

----------------------------------------------------------------------------
(* Properties of expansion and playback, checked under SpecMelody *)

Elements == mel.note_elements

\* the element the expansion loop is about to look at
AtElement == pcM = "expanding" /\ expI < Len(Elements)

Current == Elements[expI + 1]

ValidNote(e) ==
    e.kind = "Note" /\ 1 <= e.position /\ e.position <= Len(mel.scale_intervals)

\* the number of Sustain elements that directly follow element idx
\* (idx counts from 1)
Run(idx) ==
    CHOOSE k \in 0..Len(Elements) :
        /\ idx + k <= Len(Elements)
        /\ \A n \in 1..k : Elements[idx + n].kind = "Sustain"
        /\ idx + k = Len(Elements) \/ Elements[idx + k + 1].kind # "Sustain"

\* element idx is a Sustain that a valid Note before it holds
Consumed(idx) ==
    /\ Elements[idx].kind = "Sustain"
    /\ \E n \in 1..(idx - 1) :
          /\ ValidNote(Elements[n])
          /\ \A s \in (n + 1)..idx : Elements[s].kind = "Sustain"

\* C13: one play call hands the sink one finite generator per note, in the
\* order of the note list, each with the sample budget of its note's duration
\* at the melody's sample rate and nothing played yet; the note list is left
\* as it was, so every further play call hands the same sequence again.
C13_PlayHandsOff ==
    /\ [](pcM = "built" =>
             /\ Len(sink) = plays * Len(mel.notes)
             /\ \A n \in 1..Len(sink) :
                   LET note == mel.notes[((n - 1) % Len(mel.notes)) + 1]
                   IN  /\ sink[n].limit =
                              Some((note.duration * mel.sample_rate) \div 1000)
                       /\ sink[n].samples_played = 0
                       /\ sink[n].phase = 0
                       /\ sink[n].sample_rate = mel.sample_rate
                       /\ sink[n].frequency16 = Frequency16(note.note, note.octave))
    /\ [][plays' # plays => (plays' = plays + 1 /\ mel' = mel)]_vars

C13_Witness ==
    /\ pcM = "built"
    /\ plays = 2
    /\ Len(mel.notes) = 2
    /\ mel.notes[1].note # "Rest"
    /\ mel.notes[2].note = "Rest"
    /\ Len(sink) = 4
    /\ sink[3] = sink[1]
    /\ sink[1].limit.val > sink[2].limit.val

\* C14: in the expansion a Note followed directly by k Sustain elements
\* becomes exactly one note of base unit + k sixteenths, and the loop goes on
\* behind the k Sustains, which become nothing of their own; "1-" is one note
\* of base unit + one sixteenth.
C14_SustainExtends ==
    /\ [](pcM = "built" /\ Elements = <<NoteEl(1, 0), SustainEl>> =>
             /\ Len(mel.notes) = 1
             /\ mel.notes[1].duration =
                    mel.base_note_duration + mel.sixteenth_note_duration)
    /\ [][(AtElement /\ ValidNote(Current)) =>
             LET k == Run(expI + 1)
             IN  /\ Len(mel'.notes) = Len(mel.notes) + 1
                 /\ SubSeq(mel'.notes, 1, Len(mel.notes)) = mel.notes
                 /\ mel'.notes[Len(mel'.notes)].duration =
                        mel.base_note_duration + k * mel.sixteenth_note_duration
                 /\ expI' = expI + 1 + k
         ]_vars

C14_Witness ==
    /\ pcM = "built"
    /\ Elements = <<NoteEl(1, 0), SustainEl, SustainEl>>
    /\ mel.base_duration = "quarter"
    /\ mel.bpm = 120
    /\ mel.notes = <<MusicNoteNew("C", 4, 750)>>

\* the elements that become a silent note of their own
Silent ==
    {idx \in 1..Len(Elements) :
        \/ Elements[idx].kind = "Rest"
        \/ (Elements[idx].kind = "Sustain" /\ ~Consumed(idx))}

C16_ScalePositions ==
    /\ [](pcM # "panicked")
    /\ [][(AtElement /\ Current.kind = "Note") =>
             IF 1 <= Current.position /\ Current.position <= Len(mel.scale_intervals)
             THEN LET iv == mel.scale_intervals[Current.position]
                            + 12 * Current.octave_offset
                      r == NoteAtIntervalOf(melImpl, mel.key.val, iv)
                      last == mel'.notes[Len(mel'.notes)]
                  IN  /\ Len(mel'.notes) = Len(mel.notes) + 1
                      /\ last.note = r.note
                      /\ last.octave = r.octave
                      /\ melImpl = "music" =>
                             /\ last.note = FloorPitch(mel.key.val, iv)
                             /\ last.octave = FloorOctave(mel.key.val, iv)
             ELSE /\ mel'.notes = mel.notes
                  /\ expI' = expI + 1
                  /\ pcM' = "expanding"
         ]_vars

C16_Witness ==
    /\ pcM = "built"
    /\ melImpl = "music"
    /\ mel.scale_intervals = PENTATONIC_MAJOR
    /\ Elements = <<NoteEl(7, 1), NoteEl(0, 0), NoteEl(1, -1)>>
    /\ Len(mel.notes) = 1
    /\ mel.notes[1].note = "C"
    /\ mel.notes[1].octave = 3

----------------------------------------------------------------------------
(* Properties of calculate_durations, checked under SpecDur *)

\* C17: in whole milliseconds, quarter = 60000 / BPM; the base unit is
\* quarter * 4, * 2, * 1, / 2, / 4 for whole, half, quarter, eighth, sixteenth;
\* the sustain increment is quarter / 4 whatever the base unit is.  BPM 120
\* with quarter gives 500 ms, BPM 60 with sixteenth 250 ms.
C17_Durations ==
    durIn.bpm > 0 =>
        LET quarter == 60000 \div durIn.bpm
            name == durIn.base_duration
        IN  /\ quarter * durIn.bpm <= 60000
            /\ 60000 < (quarter + 1) * durIn.bpm
            /\ durOut.sixteenth = quarter \div 4
            /\ name \in {"whole", "1", "WHOLE"} => durOut.base = quarter * 4
            /\ name \in {"half", "2"} => durOut.base = quarter * 2
            /\ name \in {"quarter", "4", "Quarter"} => durOut.base = quarter
            /\ name \in {"eighth", "8"} => durOut.base = quarter \div 2
            /\ name \in {"sixteenth", "16"} => durOut.base = quarter \div 4
            /\ (durIn.bpm = 120 /\ name = "quarter") => durOut.base = 500
            /\ (durIn.bpm = 60 /\ name = "sixteenth") => durOut.base = 250

C17_Witness ==
    /\ durIn = [bpm |-> 7, base_duration |-> "eighth"]
    /\ durOut = [base |-> 4285, sixteenth |-> 2142]

----------------------------------------------------------------------------
(* Properties of parse_note_notation, checked under SpecParse *)

\* a character has been scanned and the parse has not failed
Scanning == lastCh # "" /\ pResult.tag # "Err"

LastElement == pst.elements[Len(pst.elements)]

\* C18: within one token the octave register is modal: '^' adds 1 and 'v'
\* subtracts 1, a digit scanned afterwards emits Note(digit, register), '.'
\* emits Rest and '-' Sustain, in scan order; "1^234v5" parses to exactly
\* [Note(1,0), Note(2,1), Note(3,1), Note(4,1), Note(5,0)].
C18_ModalWithinToken ==
    /\ [](/\ ParseNoteNotation(<<<<"1", "^", "2", "3", "4", "v", "5">>>>)
                = ParseOk(<<NoteEl(1, 0), NoteEl(2, 1), NoteEl(3, 1),
                            NoteEl(4, 1), NoteEl(5, 0)>>)
          /\ ParseNoteNotation(<<<<"1", ".", "-", "v", "2">>>>)
                = ParseOk(<<NoteEl(1, 0), RestEl, SustainEl, NoteEl(2, -1)>>)
          /\ pcP = "while" => pst.current_octave_offset = tokShift
          /\ (Scanning /\ IsDigit(lastCh)) =>
                LastElement = NoteEl(ToDigit(lastCh), tokShift)
          /\ (Scanning /\ lastCh = ".") => LastElement = RestEl
          /\ (Scanning /\ lastCh = "-") => LastElement = SustainEl)
    /\ [][scanned' # scanned =>
             /\ lastCh' \in {"^", "v", " ", "\t"} => pst'.elements = pst.elements
             /\ (IsDigit(lastCh') \/ lastCh' \in {".", "-"}) =>
                    /\ Len(pst'.elements) = Len(pst.elements) + 1
                    /\ SubSeq(pst'.elements, 1, Len(pst.elements)) = pst.elements
                    /\ pst'.current_octave_offset = pst.current_octave_offset
             /\ lastCh' = "^" =>
                    pst'.current_octave_offset = pst.current_octave_offset + 1
             /\ lastCh' = "v" =>
                    pst'.current_octave_offset = pst.current_octave_offset - 1
         ]_vars

\* the token "1^2v.": the 2 one register up, then back down
C18_Witness ==
    /\ pcP = "done"
    /\ tokIdx = 1
    /\ lastCh = "."
    /\ tokShift = 0
    /\ pResult = ParseOk(<<NoteEl(1, 0), NoteEl(2, 1), RestEl>>)

\* C19: over the tokens of one call the octave register persists: a note
\* carries every '^' and 'v' scanned before it in the call, those of earlier
\* tokens included.
C19_RegisterPersists ==
    (Scanning /\ IsDigit(lastCh)) =>
        LastElement = NoteEl(ToDigit(lastCh), callShift)

\* C20: a '0' fails the parse with the position-zero error, and a character
\* that is none of 1-9 . - ^ v or whitespace ('V' and '#' among them) fails
\* it with the invalid-character error naming that character; the scan stops
\* at the first such character and no element list is returned, whatever was
\* parsed before it.
C20_AllOrNothing ==
    /\ [](/\ ParseNoteNotation(<<<<"1", "0">>>>) = ParseErr(PositionZero)
          /\ ParseNoteNotation(<<<<"1", "#", "2">>>>) = ParseErr(InvalidCharacter("#"))
          /\ ParseNoteNotation(<<<<"1">>, <<"2", "V">>, <<"0">>>>)
                = ParseErr(InvalidCharacter("V"))
          /\ lastCh = "0" => pResult = ParseErr(PositionZero)
          /\ lastCh \in {"V", "#"} => pResult = ParseErr(InvalidCharacter(lastCh))
          /\ pResult.tag = "Err" => (pResult.elements = <<>> /\ pcP = "done")
          /\ (pResult.tag = "Err" /\ pResult.error = PositionZero) => lastCh = "0"
          /\ (pResult.tag = "Err" /\ pResult.error.kind = "invalid_character") =>
                (lastCh = pResult.error.ch
                 /\ ~IsDigit(lastCh)
                 /\ lastCh \notin {".", "-", "^", "v", " ", "\t"}))
    /\ [][pResult.tag # "none" => UNCHANGED <<pResult, pst, scanned, lastCh>>]_vars

\* valid elements of two tokens, then a '#'
C20_Witness ==
    /\ pResult = ParseErr(InvalidCharacter("#"))
    /\ tokIdx = 2
    /\ Len(pst.elements) >= 2
    /\ pcP = "done"

\* C21: when all tokens were scanned and no element came of them, the call
\* fails with the no-notes error: for no token at all, for empty tokens, for
\* tokens of skipped whitespace and octave markers only; a successful call
\* returns a non-empty list.
C21_NoNotes ==
    /\ ParseNoteNotation(<<>>) = ParseErr(NoNotes)
    /\ ParseNoteNotation(<<<<>>, <<>>>>) = ParseErr(NoNotes)
    /\ ParseNoteNotation(<<<<" ", "^">>, <<"v", "\t", "v">>>>) = ParseErr(NoNotes)
    /\ pResult.tag = "Ok" => (pResult.elements # <<>> /\ pResult.elements = pst.elements)
    /\ (pcP = "done" /\ pst.error = NoError) =>
           (pst.elements = <<>> <=> pResult = ParseErr(NoNotes))
    /\ pResult = ParseErr(NoNotes) => pst.elements = <<>>

\* two tokens of octave markers, a space and a tab, and nothing else
C21_Witness ==
    /\ pResult = ParseErr(NoNotes)
    /\ tokIdx = 2
    /\ scanned >= 3
    /\ callShift # 0
    /\ lastCh \in {" ", "\t"}

Whitespace == {" ", "\t", "\n", "\r"}

\* C22: a whitespace character (space, tab, newline, carriage return) in a
\* token is skipped: no element, no change of the octave register, no error.
C22_WhitespaceIgnored ==
    lastCh \in Whitespace =>
        /\ pResult.tag # "Err"
        /\ pst.error = NoError
        /\ pst.current_octave_offset = tokShift

----------------------------------------------------------------------------
(* Properties of the command line, checked under SpecCli *)

\* arguments that one of the checks of create_melody_config must refuse
BadArgs(args) ==
    \/ args.bpm \notin 1..500
    \/ args.duration = "triplet"
    \/ args.scale = "nope"
    \/ args.key = "H"
    \/ args.notes \in {<< <<"1", "0">> >>, << <<"v", " ">> >>, << <<>> >>}

\* C23: if the BPM is outside [1, 500], or the duration unit, the scale name,
\* the key name or the notation is invalid, create_melody_config returns an
\* error, no Melody is constructed and no generator is ever appended to the
\* sink; a Melody is built and played only after every check has passed.
C23_EagerValidation ==
    /\ pcM # "start" =>
          /\ BadArgs(cliArgs) <=> cliResult.tag = "Err"
          /\ ~BadArgs(cliArgs) <=> cliResult.tag = "Ok"
          /\ cliResult.tag = "Err" <=> pcM = "exited"
    /\ pcM = "exited" => (mel = NoMelody /\ sink = <<>> /\ plays = 0)
    /\ mel # NoMelody => cliResult.tag = "Ok"
    /\ sink # <<>> => (cliResult.tag = "Ok" /\ pcM = "built" /\ plays > 0)

C23_Witness ==
    /\ melImpl = "music"
    /\ pcM = "exited"
    /\ cliArgs.bpm = 120
    /\ cliArgs.duration = "Quarter"
    /\ cliResult.error = [check |-> "notation", parse |-> PositionZero]
    /\ sink = <<>>

----------------------------------------------------------------------------
(* Properties of the builder and of the expansion loop *)

\* C24: add_interval on a legacy Melody on which no key was ever set (neither
\* in_key nor set_key) panics and appends no note; with a key it always
\* appends exactly one note; the current Melody has a key from construction
\* on, so its add_interval never meets a Melody without one.
C24_IntervalNeedsKey ==
    /\ [](melImpl = "music" /\ pcM # "start" => (mel.key.some /\ pcM # "panicked"))
    /\ [][lastOp'.op = "add_interval" =>
              IF mel.key.some
              THEN /\ pcM' = "built"
                   /\ Len(mel'.notes) = Len(mel.notes) + 1
                   /\ SubSeq(mel'.notes, 1, Len(mel.notes)) = mel.notes
                   /\ mel'.key = mel.key
              ELSE /\ melImpl = "legacy"
                   /\ mel' = mel
                   /\ pcM' = "panicked"]_vars
    /\ [][(~mel.key.some /\ mel'.key.some) => lastOp'.op \in {"new", "set_key"}]_vars
    /\ [][mel.key.some => mel'.key.some]_vars

C24_Witness ==
    /\ melImpl = "legacy"
    /\ pcM = "panicked"
    /\ lastOp.op = "add_interval"
    /\ ~mel.key.some
    /\ Len(mel.notes) >= 1

\* C25: the expansion loop of Melody::new ends for every element list: each
\* turn moves the index forward, within the list; the elements a turn passes
\* are one Note, Rest or Sustain followed only by Sustains held by that Note,
\* so every element is consumed once; there are never more notes than
\* elements consumed, and the loop leaves with the index at the end.
C25_ExpansionTerminates ==
    /\ [](pcM \in {"expanding", "built"} =>
             (Len(mel.notes) <= expI /\ expI <= Len(Elements)))
    /\ [](pcM = "built" => expI = Len(Elements))
    /\ [][AtElement =>
             /\ expI' > expI
             /\ expI' <= Len(Elements)
             /\ mel'.note_elements = Elements
             /\ Len(mel'.notes) <= Len(mel.notes) + 1
             /\ expI' > expI + 1 => ValidNote(Current)
             /\ \A n \in (expI + 2)..expI' : Consumed(n)
             /\ pcM' = "expanding"
         ]_vars
    /\ (pcM = "expanding") ~> (pcM = "built")

\* three elements consumed in two turns: a skipped Note, then a Note that
\* holds a Sustain
C25_Witness ==
    /\ pcM = "built"
    /\ melImpl = "music"
    /\ Elements = <<NoteEl(0, 0), NoteEl(1, 0), SustainEl>>
    /\ expI = 3
    /\ Len(mel.notes) = 1

\* the milliseconds the notes of a list last, one after the other
RECURSIVE SumDurations(_)
SumDurations(notes) ==
    IF notes = <<>> THEN 0 ELSE Head(notes).duration + SumDurations(Tail(notes))

\* the samples the generators of a sink hold
RECURSIVE SumLimits(_)
SumLimits(gens) ==
    IF gens = <<>> THEN 0 ELSE Head(gens).limit.val + SumLimits(Tail(gens))

\* C26: for every Melody that Melody::new has built, the wait of play behind
\* one play call (number of note elements times the base note duration) is
\* at least the sum of the durations of the scheduled notes; in loop mode all
\* the waits so far cover all the audio handed to the sink so far, so an
\* iteration's generators are never appended before the audio of the
\* iterations before has run out.
C26_WaitCoversAudio ==
    /\ pcM = "start" =>
          \A bpm \in 1..MaxBpm, d \in DurationNames :
              CalculateDurations(bpm, d).base >= CalculateDurations(bpm, d).sixteenth
    /\ pcM = "built" =>
          /\ Len(Elements) * mel.base_note_duration >= SumDurations(mel.notes)
          /\ plays > 0 =>
                /\ slept >= plays * SumDurations(mel.notes)
                /\ slept * mel.sample_rate >= SumLimits(sink) * 1000

\* two iterations of a looping melody whose note holds two Sustains
C26_Witness ==
    /\ melImpl = "music"
    /\ pcM = "built"
    /\ mel.should_loop
    /\ plays = 2
    /\ mel.base_duration = "quarter"
    /\ mel.bpm = 120
    /\ Elements = <<NoteEl(1, 0), SustainEl, SustainEl>>
    /\ slept = 3000
    /\ SumLimits(sink) = 2 * 33075

\* the loop stands at a Note whose position is out of range
AtSkipped == AtElement /\ Current.kind = "Note" /\ ~ValidNote(Current)

\* element idx is a Sustain in the run right behind a Note out of range
BehindSkipped(idx) ==
    /\ Elements[idx].kind = "Sustain"
    /\ \E n \in 1..(idx - 1) :
          /\ Elements[n].kind = "Note" /\ ~ValidNote(Elements[n])
          /\ \A k \in (n + 1)..idx : Elements[k].kind = "Sustain"

\* C27: when a Note is skipped for its position, the Sustains right behind it
\* are neither dropped nor added to an earlier note: the loop goes on at the
\* first of them and each becomes a silent note of its own, one base unit
\* long.
C27_SustainAfterSkipped ==
    /\ [](pcM = "built" /\ Elements = <<NoteEl(1, 0), NoteEl(0, 0), SustainEl>> =>
             mel.notes = <<MusicNoteNew("C", 4, mel.base_note_duration),
                           MusicNoteNew("Rest", 0, mel.base_note_duration)>>)
    /\ [][AtSkipped =>
             /\ mel'.notes = mel.notes
             /\ expI' = expI + 1
             /\ pcM' = "expanding"
         ]_vars
    /\ [][(AtElement /\ BehindSkipped(expI + 1)) =>
             /\ mel'.notes =
                    Append(mel.notes, MusicNoteNew("Rest", 0, mel.base_note_duration))
             /\ expI' = expI + 1
         ]_vars
    /\ [](pcM = "built" =>
             \A idx \in 1..Len(Elements) :
                 BehindSkipped(idx) =>
                     LET at == Cardinality({n \in 1..idx : ValidNote(Elements[n])})
                               + Cardinality({n \in 1..idx : n \in Silent})
                     IN  /\ at <= Len(mel.notes)
                         /\ mel.notes[at] =
                                MusicNoteNew("Rest", 0, mel.base_note_duration))

C27_Witness ==
    /\ pcM = "built"
    /\ melImpl = "music"
    /\ mel.bpm = 120
    /\ mel.base_duration = "quarter"
    /\ Elements = <<NoteEl(1, 0), NoteEl(0, 0), SustainEl>>
    /\ mel.notes = <<MusicNoteNew("C", 4, 500), MusicNoteNew("Rest", 0, 500)>>

\* the arguments pass every check that comes before the notation
ValidButNotes(args) ==
    /\ args.bpm \in 1..500
    /\ args.duration # "triplet"
    /\ args.scale # "nope"
    /\ args.key # "H"

\* the tokens hold octave shifts, spaces and tabs only
NoElementIn(tokens) ==
    \A t \in 1..Len(tokens) : \A c \in 1..Len(tokens[t]) :
        tokens[t][c] \in {"^", "v", " ", "\t"}

NoNotesError == [check |-> "notation", parse |-> NoNotes]

\* C30: with no notation token at all create_melody_config never fails with
\* the no-notes error: the parser is not called and the elements are the eight
\* notes Note(1,0)..Note(8,0); the no-notes error comes only from a call with
\* at least one token whose tokens yield no element.
C30_DefaultNotes ==
    pcM # "start" =>
        /\ cliArgs.notes = <<>> =>
              /\ cliResult.error.check # "notation"
              /\ cliResult.error.parse = NoError
              /\ ValidButNotes(cliArgs) =>
                    /\ cliResult.tag = "Ok"
                    /\ cliResult.config.note_elements =
                           <<NoteEl(1, 0), NoteEl(2, 0), NoteEl(3, 0), NoteEl(4, 0),
                             NoteEl(5, 0), NoteEl(6, 0), NoteEl(7, 0), NoteEl(8, 0)>>
                    /\ mel.note_elements = cliResult.config.note_elements
                    /\ pcM # "exited"
        /\ cliResult.error = NoNotesError =>
              (cliArgs.notes # <<>> /\ NoElementIn(cliArgs.notes))
        /\ (cliArgs.notes # <<>> /\ NoElementIn(cliArgs.notes) /\ ValidButNotes(cliArgs)) =>
              (cliResult.error = NoNotesError /\ pcM = "exited")

\* the default scale of eight notes, expanded and played by the legacy main
C30_Witness ==
    /\ melImpl = "legacy"
    /\ cliArgs.notes = <<>>
    /\ cliArgs.scale = "major"
    /\ pcM = "built"
    /\ Len(mel.notes) = 8
    /\ Len(sink) = 8

----------------------------------------------------------------------------
(* Properties of jam, checked under SpecJam *)

\* C28: after any sequence of Up and Down presses the base octave is a valid
\* octave: Down at octave 0 and Up at the maximum neither panic nor wrap
\* around, and the octave of a played note, base octave plus the row offset
\* 0..3, is in range as well.
C28_OctaveInRange ==
    /\ [](pcJ # "panicked")
    /\ [][jamOctave' - jamOctave \in {-1, 0, 1}]_vars
    /\ [](jamEvent.made = 1 =>
             jamEvent.note.octave \in jamOctave..(jamOctave + 3))

\* C29: a Press of a note or chord key that is already held creates no
\* further sink; after a Release of a key code the map has no entry of that
\* code and every sink taken out of it was stopped; when the loop is left
\* with Ctrl+C every sink still in the map is stopped.
C29_SinkLifecycle ==
    /\ [][(/\ jamEvent.kind = "Press" /\ jamEvent.made > 0
            /\ jamEvent'.kind = "Press"
            /\ jamEvent'.code = jamEvent.code
            /\ jamEvent'.modifiers = jamEvent.modifiers)
           => connected' = connected]_vars
    /\ [](jamEvent.kind = "Release" =>
             \A k \in DOMAIN active_keys : k.code # jamEvent.code)
    /\ [](connected = Cardinality(DOMAIN active_keys) + stopped)
    /\ [](pcJ = "exited" => (active_keys = <<>> /\ stopped = connected))
====
